---- MODULE Spec2Model ----
(***************************************************************************)
(* The SyncTarget-export controller of kcp                                 *)
(* (pkg/reconciler/workload/synctargetexports): four watched collections,  *)
(* the event handlers that route their notifications into a rate-limited   *)
(* work queue, the worker loop, the reconcile pass and the status patch.   *)
(*                                                                         *)
(* The Store is the informer cache; a change of an object and the          *)
(* notification of the handlers registered for it are one step, so a       *)
(* handler always sees the indexer as of its event.  A worker's pass is    *)
(* split where other goroutines can interleave: Get, the read-and-compute  *)
(* part of process, the PATCH request, and the AddRateLimited/Forget/Done  *)
(* tail.                                                                   *)
(***************************************************************************)
EXTENDS Naturals, Sequences, FiniteSets, Bags, TLC

\* ------------------------------------------------------------------ bounds

\* numThreads handed to Start.
NumWorkers == 2
\* External changes (creates, updates, deletes by actors other than the
\* controller) in one behaviour.
MaxChanges == 1
\* The per-key failure count of the rate limiter saturates here (the real
\* limiter's delay saturates at its maximum delay in the same way).
MaxFailures == 2

\* The spec rewrites of the burst specification.
MaxBurst == 5

\* The failures of event handlers in one behaviour of the routing-failure
\* specification.
MaxFaults == 1

\* The longest cluster name, path, object name and Location, in characters,
\* of the key encoding specification.
MaxNameLen == 3

\* ------------------------------------------------------------ the universe

Cluster == "c1"
\* The logical path alias under which objects of Cluster can be addressed.
ClusterPath == "root:org:ws"

Targets == {"T1", "T2", "T3"}
TargetOrder == <<"T1", "T2", "T3">>
ExportNames == {"E", "F"}
SchemaNames == {"S1", "S2", "S3"}
ImportNames == {"I1", "I2"}

\* The resource type of each APIResourceSchema: its group/version/resource
\* and its identity hash.  S3 is a later revision of the resource of S1.
SchemaDef ==
  [n \in SchemaNames |->
     CASE n = "S1" -> [gvr |-> "cowboys",  hash |-> "h1"]
       [] n = "S2" -> [gvr |-> "sheriffs", hash |-> "h2"]
       [] OTHER    -> [gvr |-> "cowboys",  hash |-> "h3"]]

Resources == {"cowboys", "sheriffs"}

\* A declared export reference of a SyncTarget; path "" is "omitted".
Ref(path, name) == [path |-> path, export |-> name]

VARIABLES
  syncTargets,   \* name -> [exports, synced, uid, rv]      (SyncTarget store)
  apiExports,    \* name -> [schemas, path]                 (APIExport store)
  schemas,       \* the names of the stored APIResourceSchemas
  imports,       \* name -> [location, gvr, generation]     (APIResourceImport store)
  nextUID,       \* SyncTarget name -> the UID its next incarnation gets
  queue,         \* workqueue: keys in delivery order
  dirty,         \* workqueue: keys that need processing
  processing,    \* workqueue: keys handed out by Get and not yet Done
  waiting,       \* delaying queue: keys added rate-limited, delay running
  failures,      \* rate limiter: per-key failure count
  passes,        \* the passes in progress, one per busy worker: a bag of
                 \* [key, pc, res], pc being the worker's position in the
                 \* pass and res the outcome of the pass so far
  adds,          \* key -> the queue.Add calls the queue took for it since Get
                 \* last returned it
  changes,       \* external changes so far
  budget,        \* the external changes a behaviour may make
  last,          \* the notification delivered last and what its handler did
  phase,         \* Start: "running" until ctx is cancelled, "cancelled" until
                 \* Start returns and its deferred queue.ShutDown() has run,
                 \* "shutdown" from then on
  exited,        \* the workers whose loop has ended
  sink,          \* the process-wide error sink: the runtime.HandleError calls
                 \* of the event handlers, and of process for a key that
                 \* cannot be split, so far
  byExport,      \* the SyncTarget indexer's by-export index: index value ->
                 \* the keys of the SyncTargets stored under it
  bySchema,      \* the APIExport indexer's by-schema index: schema key ->
                 \* the names of the APIExports stored under it
  shard,         \* the test framework's Shard: terminatedCh, and the position
                 \* and result of its Start and WaitForReady calls
  env,           \* what a Shard runs in: its ctx, the kcp process, the file
                 \* admin.kubeconfig, the server's /readyz, and the order in
                 \* which these changed
  enc            \* the key encoding applied: its arguments and results

controllerVars == <<syncTargets, apiExports, schemas, imports, nextUID, queue, dirty,
                    processing, waiting, failures, passes, adds, changes, budget, last,
                    phase, exited, sink, byExport, bySchema>>
shardVars == <<shard, env>>

vars == <<controllerVars, shardVars, enc>>

storeVars == <<syncTargets, apiExports, schemas, imports, nextUID>>
queueVars == <<queue, dirty, processing, adds, waiting, failures>>
workerVars == <<passes>>
lifeVars == <<phase, exited>>
idxVars == <<byExport, bySchema>>

\* ------------------------------------------------------------------- keys

\* An APIResourceImport's Spec.Location is a string that nothing in the
\* controller validates.  MalformedLocation stands for one with separators
\* in it and MalformedKey for the key built from it, which has a part too
\* many.
MalformedLocation == "a/b/T1"
MalformedKey == <<Cluster, "a", "b", "T1">>

\* kcpcache.ToClusterAwareKey: the work-queue key of (cluster, namespace,
\* name), given as the parts its string splits into at the separators.
ToClusterAwareKey(cluster, ns, name) ==
  IF name = MalformedLocation THEN MalformedKey ELSE <<cluster, ns, name>>

\* kcpcache.SplitMetaClusterNamespaceKey: a key is given as the parts its
\* string splits into at the separators; one of three parts is split into
\* cluster, namespace and name, any other is an error.
SplitMetaClusterNamespaceKey(key) ==
  IF Len(key) = 3
  THEN [err |-> FALSE, cluster |-> key[1], namespace |-> key[2], name |-> key[3]]
  ELSE [err |-> TRUE, cluster |-> "", namespace |-> "", name |-> ""]

\* kcpcache.MetaClusterNamespaceKeyFunc of the SyncTarget named t.
SyncTargetKey(t) == ToClusterAwareKey(Cluster, "", t)

Keys == {SyncTargetKey(t) : t \in Targets}

\* The keys a queue can hold.
QueueKeys == Keys \cup {MalformedKey}

\* path.Join(name): the by-export index value and the export lookup key.
PathJoin(path, name) == <<path, name>>

\* keys.List(): a set of SyncTarget keys in sorted order.
SortedKeys(ks) ==
  LET present == SelectSeq(TargetOrder, LAMBDA t : SyncTargetKey(t) \in ks)
  IN  [i \in 1..Len(present) |-> SyncTargetKey(present[i])]

\* The sequences that list every element of the finite set S exactly once.
Orders(S) ==
  {f \in [1..Cardinality(S) -> S] : \A i, j \in 1..Cardinality(S) : f[i] = f[j] => i = j}

RECURSIVE Concat(_)
\* The concatenation of a sequence of sequences.
Concat(ss) == IF ss = <<>> THEN <<>> ELSE Head(ss) \o Concat(Tail(ss))

Min(a, b) == IF a < b THEN a ELSE b

\* ------------------------------------------------------------ index layer

\* The by-export index function: one value per declared reference; an
\* omitted path stands for the SyncTarget's own logical cluster.
indexSyncTargetsByExports(st) ==
  {PathJoin(IF r.path = "" THEN Cluster ELSE r.path, r.export) :
     r \in {st.exports[i] : i \in 1..Len(st.exports)}}

\* The by-schema index function: one value per entry of LatestResourceSchemas.
indexAPIExportsByAPIResourceSchemas(ex) ==
  {ToClusterAwareKey(Cluster, "", ex.schemas[i]) : i \in 1..Len(ex.schemas)}

\* syncTargetIndexer.IndexKeys(indexSyncTargetsByExport, value).
SyncTargetsByExport(value) ==
  {SyncTargetKey(t) : t \in {u \in DOMAIN syncTargets :
                               value \in indexSyncTargetsByExports(syncTargets[u])}}

\* A by-schema lookup that returns every stored export.
APIExportsAll(key) == DOMAIN apiExports

\* apiExportsIndexer.ByIndex(indexAPIExportsByAPIResourceSchema, key).
APIExportsBySchema(key) ==
  {e \in DOMAIN apiExports : key \in indexAPIExportsByAPIResourceSchemas(apiExports[e])}

\* The values of the by-export index and the keys of the by-schema index.
ExportValues == {PathJoin(p, e) : p \in {Cluster, ClusterPath}, e \in ExportNames}
SchemaKeys == {ToClusterAwareKey(Cluster, "", n) : n \in SchemaNames}

\* The indexer's update of an index on a change of the object stored under
\* key, without the removal of the key from the values it had.
updateIndicesNoRemove(idx, oldVals, newVals, key) ==
  [v \in DOMAIN idx |-> IF v \in newVals THEN idx[v] \cup {key} ELSE idx[v]]

\* The indexer's update of an index on a change of the object stored under
\* key: oldVals are the values the index function gives the old object (none
\* on creation), newVals those it gives the new object (none on deletion).
\* The key is taken out of the entries of the old values and put into those
\* of the new ones.
updateIndices(idx, oldVals, newVals, key) ==
  [v \in DOMAIN idx |->
     IF v \in newVals THEN idx[v] \cup {key}
     ELSE IF v \in oldVals THEN idx[v] \ {key}
     ELSE idx[v]]

\* ------------------------------------------------------------- work queue

\* The queue proper as one value, for handlers that add several keys.
Q ==
  [queue |-> queue, dirty |-> dirty, processing |-> processing, adds |-> adds,
   shuttingDown |-> (phase = "shutdown")]

SetQ(q) ==
  /\ queue' = q.queue
  /\ dirty' = q.dirty
  /\ processing' = q.processing
  /\ adds' = q.adds

\* queue.Add(k) without the check of the dirty set.
QAddNoDedup(q, k) ==
  [q EXCEPT !.dirty = @ \cup {k}, !.queue = Append(@, k), !.adds[k] = @ + 1]

\* queue.Add(k); a queue that is shutting down takes nothing.
QAdd(q, k) ==
  IF q.shuttingDown THEN q
  ELSE IF k \in q.dirty THEN [q EXCEPT !.adds[k] = @ + 1]
  ELSE IF k \in q.processing THEN [q EXCEPT !.dirty = @ \cup {k}, !.adds[k] = @ + 1]
  ELSE [q EXCEPT !.dirty = @ \cup {k}, !.queue = Append(@, k), !.adds[k] = @ + 1]

\* queue.Get() when an item is available: the head is handed out.
QGet(q) ==
  [q EXCEPT !.queue = Tail(@),
            !.processing = @ \cup {Head(q.queue)},
            !.dirty = @ \ {Head(q.queue)},
            !.adds[Head(q.queue)] = 0]

\* queue.Done(k).
QDone(q, k) ==
  IF k \in q.dirty
  THEN [q EXCEPT !.processing = @ \ {k}, !.queue = Append(@, k)]
  ELSE [q EXCEPT !.processing = @ \ {k}]

\* How often key k occurs in the sequence s.
Count(s, k) == Cardinality({i \in 1..Len(s) : s[i] = k})

\* ---------------------------------------------------------------- lookups

\* getAPIExport(path, name): the export named name that is addressed by
\* path, either as its logical cluster or as its annotated logical path.
ExportFound(path, name) ==
  /\ name \in DOMAIN apiExports
  /\ \/ path = Cluster
     \/ path # "" /\ path = apiExports[name].path

\* getResourceSchema(cluster, name).
SchemaFound(name) == name \in schemas

\* listAPIResourceImports(cluster): the stored imports.
ListAPIResourceImports == {imports[i] : i \in DOMAIN imports}

\* ------------------------------------------------------- reconciler chain

\* The entries of the sequence s at the positions in keep, in order.
SubSeqAt(s, keep) ==
  LET idx == SelectSeq([i \in 1..Len(s) |-> i], LAMBDA i : i \in keep)
  IN  [k \in 1..Len(idx) |-> s[idx[k]]]

\* The authoritative entries of LatestResourceSchemas: an entry is
\* historical when a later entry names the same resource.
LatestSchemas(names) ==
  SubSeqAt(names, {i \in 1..Len(names) :
                     \A j \in (i+1)..Len(names) :
                       SchemaDef[names[j]].gvr # SchemaDef[names[i]].gvr})

\* The logical cluster or path a declared reference addresses.
RefPath(ref) == IF ref.path = "" THEN Cluster ELSE ref.path

\* One declared reference resolved: the resources of the export's latest
\* schemas that are found, and whether the export or one of them is missing.
ResolveRef(ref) ==
  IF ~ExportFound(RefPath(ref), ref.export)
  THEN [res |-> <<>>, err |-> TRUE]
  ELSE LET names == LatestSchemas(apiExports[ref.export].schemas)
           found == SelectSeq(names, SchemaFound)
       IN  [res |-> [i \in 1..Len(found) |-> SchemaDef[found[i]]],
            err |-> \E i \in 1..Len(names) : ~SchemaFound(names[i])]

\* exportReconciler.reconcile giving up at the first reference that does not
\* resolve: the references after it are not looked at.
ExportReconcileAborts(st) ==
  LET rs == [i \in 1..Len(st.exports) |-> ResolveRef(st.exports[i])]
      ok == {i \in 1..Len(rs) : \A j \in 1..i : ~rs[j].err}
  IN  [st  |-> [st EXCEPT !.synced = Concat([i \in 1..Cardinality(ok) |-> rs[i].res])],
       err |-> \E i \in 1..Len(rs) : rs[i].err]

\* exportReconciler.reconcile: every declared reference is resolved; an
\* unresolvable one is an error and the others are resolved all the same.
ExportReconcile(st) ==
  LET rs == [i \in 1..Len(st.exports) |-> ResolveRef(st.exports[i])]
  IN  [st  |-> [st EXCEPT !.synced = Concat([i \in 1..Len(rs) |-> rs[i].res])],
       err |-> \E i \in 1..Len(rs) : rs[i].err]

\* Whether one of the imports ims is at SyncTarget t and supports the
\* resource gvr.
Imported(ims, t, gvr) ==
  \E im \in ims : im.location = t /\ im.gvr = gvr

\* The sequence s without the entries whose identity hash occurred earlier.
DedupByHash(s) ==
  SubSeqAt(s, {i \in 1..Len(s) : \A j \in 1..(i-1) : s[j].hash # s[i].hash})

\* The compatibility step for SyncTarget t given the listed imports ims: of
\* the resolved resources those backed by an import at t, one per identity
\* hash.  The step is handed the export and schema lookups as well; what
\* makes it fail is taken to be a lookup of a declared export or of one of
\* its schemas that fails.
CompatReconcileWith(ims, t, st) ==
  [st  |-> [st EXCEPT !.synced =
              DedupByHash(SelectSeq(st.synced, LAMBDA r : Imported(ims, t, r.gvr)))],
   err |-> \E i \in 1..Len(st.exports) : ResolveRef(st.exports[i]).err]

\* apiCompatibleReconciler.reconcile for SyncTarget t.
CompatReconcile(t, st) == CompatReconcileWith(ListAPIResourceImports, t, st)

\* ---------------------------------------------------------- event router

\* What a notification records in last: its name, the name of the object it
\* is about, the logical path the object is annotated with (APIExports) and
\* the keys its handler handed to queue.Add.
Ev(op, obj, path, added) == [op |-> op, obj |-> obj, path |-> path, added |-> added]

\* The keys that queue.Add was called with between the queue values q and q2
\* of one handler run.
Added(q, q2) == {k \in Keys : q2.adds[k] > q.adds[k]}

\* enqueueSyncTarget(obj) with an Add that skips the check of the dirty set.
enqueueSyncTargetNoDedup(q, t) == QAddNoDedup(q, SyncTargetKey(t))

\* enqueueSyncTarget(obj) returning before the Add, as it does when the key
\* function fails.
enqueueSyncTargetNoAdd(q, t) == q

\* enqueueSyncTarget(obj): the object's own key is added.
enqueueSyncTarget(q, t) == QAdd(q, SyncTargetKey(t))

\* enqueueAPIResourceImport(obj): the key of the SyncTarget at the import's
\* location, in the import's logical cluster.
enqueueAPIResourceImport(q, im) ==
  QAdd(q, ToClusterAwareKey(Cluster, "", im.location))

\* An APIResourceImport UpdateFunc that enqueues on every update.
ImportUpdateFuncAlways(q, old, new) == enqueueAPIResourceImport(q, new)

\* The APIResourceImport UpdateFunc: the new object is enqueued when its
\* Generation is not the old one's.
ImportUpdateFunc(q, old, new) ==
  IF old.generation # new.generation THEN enqueueAPIResourceImport(q, new) ELSE q

\* The keys enqueueAPIExport collects for export e with annotated path
\* `path`, looking only under the native (cluster, name) form.
ExportKeysNativeOnly(e, path) == SyncTargetsByExport(PathJoin(Cluster, e))

\* The keys enqueueAPIExport collects for export e with annotated path
\* `path`: the by-export lookup under the path (when annotated) united with
\* the lookup under the logical cluster.
ExportKeys(e, path) ==
  (IF path # "" THEN SyncTargetsByExport(PathJoin(path, e)) ELSE {})
    \cup SyncTargetsByExport(PathJoin(Cluster, e))

RECURSIVE enqueueSyncTargets(_, _)
\* The loop of enqueueAPIExport over the sequence ks of keys: the SyncTarget
\* of each key is fetched from the indexer and passed to enqueueSyncTarget.
enqueueSyncTargets(q, ks) ==
  IF ks = <<>> THEN q
  ELSE enqueueSyncTargets(
         enqueueSyncTarget(q, SplitMetaClusterNamespaceKey(Head(ks)).name), Tail(ks))

\* enqueueAPIExport(obj): every collected key, in sorted order.
enqueueAPIExport(q, e, path) == enqueueSyncTargets(q, SortedKeys(ExportKeys(e, path)))

RECURSIVE enqueueExports(_, _)
\* The loop of enqueueAPIResourceSchema over the exports es (a sequence of
\* names of stored exports).
enqueueExports(q, es) ==
  IF es = <<>> THEN q
  ELSE enqueueExports(enqueueAPIExport(q, Head(es), apiExports[Head(es)].path), Tail(es))

\* Whether SortedKeys lists key k2 before key k.
KeyBefore(k2, k) ==
  \E i, j \in 1..Len(TargetOrder) :
    i < j /\ k2 = SyncTargetKey(TargetOrder[i]) /\ k = SyncTargetKey(TargetOrder[j])

\* enqueueAPIExport(obj) with the loop left (return) at the first key that
\* fails.
enqueueAPIExportReturns(q, e, path, idx, lost) ==
  IF idx THEN [q |-> q, errs |-> 1]
  ELSE [q    |-> enqueueSyncTargets(q, SortedKeys(
                   {k \in ExportKeys(e, path) :
                      \A l \in ExportKeys(e, path) \cap lost : KeyBefore(k, l)})),
        errs |-> IF ExportKeys(e, path) \cap lost # {} THEN 1 ELSE 0]

\* enqueueAPIExport(obj) with failures, the queue it leaves and its calls of
\* runtime.HandleError.  idx: an IndexKeys lookup returns an error, which is
\* handled, and the function returns before its loop.  lost: the keys for
\* which, in the loop, GetByKey fails or yields an object that
\* enqueueSyncTarget cannot derive a key from; each error is handled and the
\* loop goes on with the next key.
enqueueAPIExportFailing(q, e, path, idx, lost) ==
  IF idx THEN [q |-> q, errs |-> 1]
  ELSE [q    |-> enqueueSyncTargets(q, SortedKeys(ExportKeys(e, path) \ lost)),
        errs |-> Cardinality(ExportKeys(e, path) \cap lost)]

\* ------------------------------------------------------------- tombstones

\* What a handler is called with: an APIExport or an APIResourceSchema as
\* the informer holds it, or cache.DeletedFinalStateUnknown, the wrapper in
\* which the informer delivers a deletion it did not see: Key is the key
\* under which the informer held the object and Obj the object as last
\* known.
ExportObj(e) == [kind |-> "APIExport", name |-> e, path |-> apiExports[e].path]
SchemaObj(n) == [kind |-> "APIResourceSchema", name |-> n]
DeletedFinalStateUnknown(key, obj) ==
  [kind |-> "DeletedFinalStateUnknown", key |-> key, obj |-> obj]

\* kcpcache.MetaClusterNamespaceKeyFunc(obj): the key of an object with
\* metadata; a wrapper has none and is an error.
MetaClusterNamespaceKeyFunc(obj) ==
  IF obj.kind = "DeletedFinalStateUnknown"
  THEN [err |-> TRUE, key |-> <<>>]
  ELSE [err |-> FALSE, key |-> ToClusterAwareKey(Cluster, "", obj.name)]

\* kcpcache.DeletionHandlingMetaClusterNamespaceKeyFunc(obj): the Key of a
\* wrapper, otherwise the key of the object.
DeletionHandlingMetaClusterNamespaceKeyFunc(obj) ==
  IF obj.kind = "DeletedFinalStateUnknown"
  THEN [err |-> FALSE, key |-> obj.key]
  ELSE MetaClusterNamespaceKeyFunc(obj)

\* The wrapper the informer makes of object obj.
Tombstone(obj) == DeletedFinalStateUnknown(MetaClusterNamespaceKeyFunc(obj).key, obj)

\* enqueueAPIExport(obj) without the unwrapping of lines 176-178.
enqueueAPIExportObjNoUnwrap(q, obj) ==
  IF obj.kind # "APIExport"
  THEN [q |-> q, errs |-> 1]
  ELSE [q |-> enqueueAPIExport(q, obj.name, obj.path), errs |-> 0]

\* enqueueAPIExport(obj), lines 175-212, from the object it is called with:
\* a wrapper is replaced by the object in it, an object that is not an
\* APIExport is an error that is handled, and the keys of an APIExport are
\* collected and enqueued.
enqueueAPIExportObj(q, obj) ==
  LET o == IF obj.kind = "DeletedFinalStateUnknown" THEN obj.obj ELSE obj
  IN  IF o.kind # "APIExport"
      THEN [q |-> q, errs |-> 1]
      ELSE [q |-> enqueueAPIExport(q, o.name, o.path), errs |-> 0]

\* enqueueAPIResourceSchema(obj), lines 215-231, from the object it is
\* called with: the key is derived, the exports that list the key are taken
\* from the by-schema index (ord is the order in which the index returns
\* exports) and each is passed to enqueueAPIExport.
enqueueAPIResourceSchemaObj(q, obj, ord) ==
  LET k == DeletionHandlingMetaClusterNamespaceKeyFunc(obj)
  IN  IF k.err
      THEN [q |-> q, errs |-> 1]
      ELSE [q    |-> enqueueExports(q, SelectSeq(ord, LAMBDA e : e \in APIExportsBySchema(k.key))),
            errs |-> 0]

\* ----------------------------------------------------------------- worker

\* The outcome of a pass before process has looked at anything.
NoRes ==
  [found |-> FALSE, steps |-> <<>>, errs |-> <<>>, err |-> FALSE,
   read |-> <<>>, computed |-> <<>>, patch |-> <<>>]

\* process(key) with the chain cut short at the first failing step.
ProcessShortCircuit(key) ==
  LET name == SplitMetaClusterNamespaceKey(key).name
  IN  IF name \notin DOMAIN syncTargets THEN NoRes
      ELSE LET st == syncTargets[name]
               r1 == ExportReconcile(st)
               r2 == CompatReconcile(name, r1.st)
           IN  IF r1.err
               THEN [found |-> TRUE, steps |-> <<"export">>, errs |-> <<"export">>,
                     err |-> TRUE, read |-> st.synced, computed |-> r1.st.synced,
                     patch |-> <<>>]
               ELSE [found |-> TRUE, steps |-> <<"export", "compat">>,
                     errs |-> IF r2.err THEN <<"compat">> ELSE <<>>,
                     err |-> r2.err, read |-> st.synced, computed |-> r2.st.synced,
                     patch |-> IF ~r2.err /\ st.synced # r2.st.synced
                               THEN <<[name |-> name, uid |-> st.uid, rv |-> st.rv,
                                       synced |-> r2.st.synced]>>
                               ELSE <<>>]

\* process(key) without the compatibility step.
ProcessNoCompat(key) ==
  LET name == SplitMetaClusterNamespaceKey(key).name
  IN  IF name \notin DOMAIN syncTargets THEN NoRes
      ELSE LET st == syncTargets[name]
               r1 == ExportReconcile(st)
           IN  [found |-> TRUE, steps |-> <<"export">>,
                errs |-> IF r1.err THEN <<"export">> ELSE <<>>,
                err |-> r1.err, read |-> st.synced, computed |-> r1.st.synced,
                patch |-> IF ~r1.err /\ st.synced # r1.st.synced
                          THEN <<[name |-> name, uid |-> st.uid, rv |-> st.rv,
                                  synced |-> r1.st.synced]>>
                          ELSE <<>>]

\* process(key) with the two steps in the other order.
ProcessCompatFirst(key) ==
  LET name == SplitMetaClusterNamespaceKey(key).name
  IN  IF name \notin DOMAIN syncTargets THEN NoRes
      ELSE LET st == syncTargets[name]
               r1 == CompatReconcile(name, st)
               r2 == ExportReconcile(r1.st)
               errs == (IF r1.err THEN <<"compat">> ELSE <<>>)
                         \o (IF r2.err THEN <<"export">> ELSE <<>>)
           IN  [found |-> TRUE, steps |-> <<"compat", "export">>, errs |-> errs,
                err |-> errs # <<>>, read |-> st.synced, computed |-> r2.st.synced,
                patch |-> IF errs = <<>> /\ st.synced # r2.st.synced
                          THEN <<[name |-> name, uid |-> st.uid, rv |-> st.rv,
                                  synced |-> r2.st.synced]>>
                          ELSE <<>>]

\* process(key) without the comparison of the computed status with the one
\* read: a patch is prepared whenever the chain returned no error.
ProcessAlwaysPatch(key) ==
  LET name == SplitMetaClusterNamespaceKey(key).name
  IN  IF name \notin DOMAIN syncTargets THEN NoRes
      ELSE LET st == syncTargets[name]
               r1 == ExportReconcile(st)
               r2 == CompatReconcile(name, r1.st)
               errs == (IF r1.err THEN <<"export">> ELSE <<>>)
                         \o (IF r2.err THEN <<"compat">> ELSE <<>>)
           IN  [found |-> TRUE, steps |-> <<"export", "compat">>, errs |-> errs,
                err |-> errs # <<>>, read |-> st.synced, computed |-> r2.st.synced,
                patch |-> IF errs = <<>>
                          THEN <<[name |-> name, uid |-> st.uid, rv |-> st.rv,
                                  synced |-> r2.st.synced]>>
                          ELSE <<>>]

\* process(key) returning the lister's error when the SyncTarget is not
\* found.
ProcessNotFoundIsError(key) ==
  LET name == SplitMetaClusterNamespaceKey(key).name
  IN  IF name \notin DOMAIN syncTargets THEN [NoRes EXCEPT !.err = TRUE]
      ELSE LET st == syncTargets[name]
               r1 == ExportReconcile(st)
               r2 == CompatReconcile(name, r1.st)
               errs == (IF r1.err THEN <<"export">> ELSE <<>>)
                         \o (IF r2.err THEN <<"compat">> ELSE <<>>)
           IN  [found |-> TRUE, steps |-> <<"export", "compat">>, errs |-> errs,
                err |-> errs # <<>>, read |-> st.synced, computed |-> r2.st.synced,
                patch |-> IF errs = <<>> /\ st.synced # r2.st.synced
                          THEN <<[name |-> name, uid |-> st.uid, rv |-> st.rv,
                                  synced |-> r2.st.synced]>>
                          ELSE <<>>]

\* process(key) with a patch that carries no UID and no resource version.
ProcessNoPreconditions(key) ==
  LET name == SplitMetaClusterNamespaceKey(key).name
  IN  IF name \notin DOMAIN syncTargets THEN NoRes
      ELSE LET st == syncTargets[name]
               r1 == ExportReconcile(st)
               r2 == CompatReconcile(name, r1.st)
               errs == (IF r1.err THEN <<"export">> ELSE <<>>)
                         \o (IF r2.err THEN <<"compat">> ELSE <<>>)
           IN  [found |-> TRUE, steps |-> <<"export", "compat">>, errs |-> errs,
                err |-> errs # <<>>, read |-> st.synced, computed |-> r2.st.synced,
                patch |-> IF errs = <<>> /\ st.synced # r2.st.synced
                          THEN <<[name |-> name, uid |-> 0, rv |-> 0,
                                  synced |-> r2.st.synced]>>
                          ELSE <<>>]

\* process(key) working on the SyncTarget as the notification of its creation
\* carried it (T1 declaring E by its path, T2 declaring E, T3 declaring F)
\* instead of on the object the lister returns for the key.
ProcessEventObject(key) ==
  LET name == SplitMetaClusterNamespaceKey(key).name
  IN  IF name \notin DOMAIN syncTargets THEN NoRes
      ELSE LET st == [syncTargets[name] EXCEPT !.exports =
                        CASE name = "T1" -> <<Ref(ClusterPath, "E")>>
                          [] name = "T2" -> <<Ref("", "E")>>
                          [] OTHER       -> <<Ref("", "F")>>]
               r1 == ExportReconcile(st)
               r2 == CompatReconcile(name, r1.st)
               errs == (IF r1.err THEN <<"export">> ELSE <<>>)
                         \o (IF r2.err THEN <<"compat">> ELSE <<>>)
           IN  [found |-> TRUE, steps |-> <<"export", "compat">>, errs |-> errs,
                err |-> errs # <<>>, read |-> st.synced, computed |-> r2.st.synced,
                patch |-> IF errs = <<>> /\ st.synced # r2.st.synced
                          THEN <<[name |-> name, uid |-> st.uid, rv |-> st.rv,
                                  synced |-> r2.st.synced]>>
                          ELSE <<>>]

\* process(key) returning the error of a key that cannot be split.
ProcessSplitErrorIsError(key) ==
  LET name == SplitMetaClusterNamespaceKey(key).name
  IN  IF SplitMetaClusterNamespaceKey(key).err THEN [NoRes EXCEPT !.err = TRUE]
      ELSE IF name \notin DOMAIN syncTargets THEN NoRes
      ELSE LET st == syncTargets[name]
               r1 == ExportReconcile(st)
               r2 == CompatReconcile(name, r1.st)
               errs == (IF r1.err THEN <<"export">> ELSE <<>>)
                         \o (IF r2.err THEN <<"compat">> ELSE <<>>)
           IN  [found |-> TRUE, steps |-> <<"export", "compat">>, errs |-> errs,
                err |-> errs # <<>>, read |-> st.synced, computed |-> r2.st.synced,
                patch |-> IF errs = <<>> /\ st.synced # r2.st.synced
                          THEN <<[name |-> name, uid |-> st.uid, rv |-> st.rv,
                                  synced |-> r2.st.synced]>>
                          ELSE <<>>]

\* process(key) up to the PATCH request: the key is split (a key that cannot
\* be split is reported and process returns nil), the SyncTarget is read
\* from the lister (none found: process returns nil), a copy goes through both reconcilers, their errors are collected,
\* and a patch is prepared when there is no error and the status differs.
Process(key) ==
  LET name == SplitMetaClusterNamespaceKey(key).name
  IN  IF SplitMetaClusterNamespaceKey(key).err THEN NoRes
      ELSE IF name \notin DOMAIN syncTargets THEN NoRes
      ELSE LET st == syncTargets[name]
               r1 == ExportReconcile(st)
               r2 == CompatReconcile(name, r1.st)
               errs == (IF r1.err THEN <<"export">> ELSE <<>>)
                         \o (IF r2.err THEN <<"compat">> ELSE <<>>)
           IN  [found |-> TRUE, steps |-> <<"export", "compat">>, errs |-> errs,
                err |-> errs # <<>>, read |-> st.synced, computed |-> r2.st.synced,
                patch |-> IF errs = <<>> /\ st.synced # r2.st.synced
                          THEN <<[name |-> name, uid |-> st.uid, rv |-> st.rv,
                                  synced |-> r2.st.synced]>>
                          ELSE <<>>]

\* A server that checks the UID of a patch and not its resource version.
PatchAcceptedAnyVersion(p) ==
  /\ p.name \in DOMAIN syncTargets
  /\ syncTargets[p.name].uid = p.uid

\* Whether the server accepts patch p: the object exists and the UID and
\* resource version the patch carries are its current ones.
PatchAccepted(p) ==
  /\ p.name \in DOMAIN syncTargets
  /\ syncTargets[p.name].uid = p.uid
  /\ syncTargets[p.name].rv = p.rv

\* A SyncTarget UpdateFunc that enqueues on every update.
SyncTargetUpdateFuncAlways(q, t, old, new) == enqueueSyncTarget(q, t)

\* An UpdateFunc that looks at SupportedAPIExports only.
SyncTargetUpdateFuncSpecOnly(q, t, old, new) ==
  IF old.exports # new.exports THEN enqueueSyncTarget(q, t) ELSE q

\* The SyncTarget UpdateFunc: the key is enqueued when SupportedAPIExports
\* or SyncedResources differ between the old and the new object.
SyncTargetUpdateFunc(q, t, old, new) ==
  IF old.exports # new.exports \/ old.synced # new.synced
  THEN enqueueSyncTarget(q, t)
  ELSE q

\* ------------------------------------------------------------ other parts

\* A Shard as NewShard returns it: no call made, terminatedCh not set (the
\* channel is given as the sequence of the values buffered in it).
ShardNew ==
  [start |-> "new", startRet |-> "none", wfr |-> "new", wfrRet |-> "none",
   terminatedCh |-> <<>>]

\* The surroundings of a new Shard: ctx is live, no process is started, the
\* runtime directory holds admin.kubeconfig or not (file), the server does
\* not answer.  cancelBeforeFile, exitBeforeFile, cancelAt and ok200 record
\* what happened: that ctx was cancelled, or the process ended, while the
\* file was not there; where Start was when ctx was cancelled; and that a
\* /readyz request of WaitForReady was answered with 200.
EnvNew(file) ==
  [ctx |-> "live", proc |-> "none", exit |-> "none", sent |-> FALSE, file |-> file,
   ready |-> FALSE, cancelBeforeFile |-> FALSE, exitBeforeFile |-> FALSE,
   cancelAt |-> "none", ok200 |-> FALSE]

\* What shard, env and enc hold in a specification that has no Shard, or
\* builds no key string.
Absent == <<>>

\* No key encoded yet.
EncNone ==
  [op |-> "none", x |-> <<>>, y |-> <<>>, k |-> <<>>,
   split |-> [err |-> FALSE, cluster |-> <<>>, namespace |-> <<>>, name |-> <<>>]]

\* ------------------------------------------------------------------- init

\* The states the model starts in are three situations of a running
\* controller, each with its workers blocked in Get.  In all of them T1
\* declares export E by its logical path and T2 by its logical cluster, E
\* serves schema S1, and import I1 backs S1's resource at T1, whose status
\* holds that resource.
\*   "resync":  T1 declares E a second time, by its logical cluster; T3
\*              declares export F, which serves S2; every status is the
\*              one the chain computes; T1's key is pending (the re-enqueue
\*              its own last status patch caused).
\*   "import":  there is no T3 and no schema S2; import I2 has just been
\*              created at T2: its AddFunc has enqueued T2, whose status is
\*              still empty.
\*   "backoff": T3 declares export F, which does not exist: T3's passes
\*              keep failing and its key is waiting out the rate limiter's
\*              delay.
\* Two more situations are those of the retry specification; in both import
\* I2 backs the resource of schema S2 at T3:
\*   "retry":       as "backoff": export F does not exist.
\*   "retrySchema": export F exists and serves S2, which does not exist.
Scenarios == {"resync", "import", "backoff"}

\* The situations in which export F is missing.
MissingExport == {"backoff", "retry"}

\* The situations in which T3's passes fail.
FailingScenarios == {"backoff", "retry", "retrySchema"}

RetryScenarios == {"retry", "retrySchema"}

InitStore(sc) ==
  /\ syncTargets =
       [t \in (IF sc = "import" THEN {"T1", "T2"} ELSE Targets) |->
          CASE t = "T1" -> [exports |-> IF sc = "resync"
                                          THEN <<Ref(ClusterPath, "E"), Ref("", "E")>>
                                          ELSE <<Ref(ClusterPath, "E")>>,
                            synced |-> <<SchemaDef["S1"]>>, uid |-> 1, rv |-> 2]
            [] t = "T2" -> [exports |-> <<Ref("", "E")>>, synced |-> <<>>, uid |-> 1, rv |-> 1]
            [] OTHER    -> [exports |-> <<Ref("", "F")>>, synced |-> <<>>, uid |-> 1, rv |-> 1]]
  /\ apiExports =
       [e \in (IF sc \in MissingExport THEN {"E"} ELSE {"E", "F"}) |->
          IF e = "E" THEN [schemas |-> <<"S1">>, path |-> ClusterPath]
                     ELSE [schemas |-> <<"S2">>, path |-> ""]]
  /\ schemas = IF sc \in {"import", "retrySchema"} THEN SchemaNames \ {"S2"} ELSE SchemaNames
  /\ imports =
       [i \in (IF sc \in {"import"} \cup RetryScenarios THEN {"I1", "I2"} ELSE {"I1"}) |->
          CASE i = "I1" -> [location |-> "T1", gvr |-> "cowboys", generation |-> 1]
            [] sc \in RetryScenarios
                        -> [location |-> "T3", gvr |-> "sheriffs", generation |-> 1]
            [] OTHER    -> [location |-> "T2", gvr |-> "cowboys", generation |-> 1]]
  /\ nextUID = [t \in Targets |-> IF t \in DOMAIN syncTargets THEN 2 ELSE 1]

InitQueue(sc, ks) ==
  /\ queue = CASE sc = "resync" -> <<SyncTargetKey("T1")>>
               [] sc = "import" -> <<SyncTargetKey("T2")>>
               [] OTHER         -> <<>>
  /\ dirty = {queue[i] : i \in 1..Len(queue)}
  /\ processing = {}
  /\ waiting = IF sc \in FailingScenarios THEN {SyncTargetKey("T3")} ELSE {}
  /\ failures = [k \in ks |->
                   IF sc \in FailingScenarios /\ k = SyncTargetKey("T3")
                   THEN MaxFailures ELSE 0]
  /\ adds = [k \in ks |-> IF k \in dirty THEN 1 ELSE 0]

\* The controller in one of the situations scs, its environment making at
\* most b changes, the queue one for the keys ks.
InitController(scs, b, ks) ==
  /\ \E sc \in scs : InitStore(sc) /\ InitQueue(sc, ks)
  /\ passes = EmptyBag
  /\ changes = 0
  /\ budget = b
  /\ last = Ev("none", "", "", {})
  /\ phase = "running"
  /\ exited = 0
  /\ sink = 0
  /\ byExport = [v \in ExportValues |-> SyncTargetsByExport(v)]
  /\ bySchema = [k \in SchemaKeys |-> APIExportsBySchema(k)]

\* The same for a controller alone: there is no Shard and no key string.
InitOver(scs, b, ks) ==
  /\ InitController(scs, b, ks)
  /\ shard = Absent
  /\ env = Absent
  /\ enc = Absent

InitWith(scs, b) == InitOver(scs, b, Keys)

Init == InitWith(Scenarios, MaxChanges)

\* ---------------------------------------------------------- worker steps

\* The workers run the same loop and keep nothing between passes: a worker
\* is either blocked in Get or busy with a pass, and the busy ones are the
\* passes in progress.

\* The bag b with one copy of x added, and with one copy of x removed.
Put(b, x) == b (+) SetToBag({x})
Drop(b, x) == b (-) SetToBag({x})

\* The pass that starts when Get returns key: process has read the
\* SyncTarget, reconciled and compared, and is before the PATCH request or,
\* with nothing to patch, at the tail of processNextWorkItem.
Pass(key) ==
  [key |-> key,
   pc  |-> IF Process(key).patch # <<>> THEN "patch" ELSE "finish",
   res |-> Process(key)]

\* A Get that any number of goroutines may be blocked in, as if a worker
\* were started for every item.
WorkerGetNoPool ==
  /\ queue # <<>>
  /\ SetQ(QGet(Q))
  /\ passes' = Put(passes, Pass(Head(queue)))
  /\ UNCHANGED <<storeVars, waiting, failures, changes, budget, last, lifeVars, sink, idxVars, shardVars, enc>>

\* processNextWorkItem with Done called right after Get instead of deferred.
WorkerGetEarlyDone ==
  /\ BagCardinality(passes) + exited < NumWorkers
  /\ queue # <<>>
  /\ SetQ(QDone(QGet(Q), Head(queue)))
  /\ passes' = Put(passes, Pass(Head(queue)))
  /\ UNCHANGED <<storeVars, waiting, failures, changes, budget, last, lifeVars, sink, idxVars, shardVars, enc>>

\* processNextWorkItem, line 255, and process, lines 276-318: a worker is
\* blocked in Get, queue.Get() returns the head of the queue, the SyncTarget
\* is read, reconciled and compared.  The read is of the local cache and
\* happens at one moment after Get; the step stands for that moment.
WorkerGet ==
  /\ BagCardinality(passes) + exited < NumWorkers
  /\ queue # <<>>
  /\ SetQ(QGet(Q))
  /\ passes' = Put(passes, Pass(Head(queue)))
  /\ sink' = sink + (IF SplitMetaClusterNamespaceKey(Head(queue)).err THEN 1 ELSE 0)
  /\ UNCHANGED <<storeVars, waiting, failures, changes, budget, last, lifeVars, idxVars, shardVars, enc>>

\* process, lines 320-355: the PATCH of the status sub-resource.  An accepted
\* patch replaces SyncedResources, and the SyncTarget informer delivers the
\* update to the UpdateFunc.  A rejected patch is the error of the pass, and
\* so is a request made with a ctx that is cancelled.
WorkerPatch(p) ==
  /\ BagIn(p, passes)
  /\ p.pc = "patch"
  /\ IF phase = "running" /\ PatchAccepted(p.res.patch[1])
     THEN LET old == syncTargets[p.res.patch[1].name]
              new == [old EXCEPT !.synced = p.res.patch[1].synced, !.rv = @ + 1]
          IN  /\ syncTargets' = [syncTargets EXCEPT ![p.res.patch[1].name] = new]
              /\ SetQ(SyncTargetUpdateFunc(Q, p.res.patch[1].name, old, new))
              /\ passes' = Put(Drop(passes, p), [p EXCEPT !.pc = "finish"])
              /\ last' = Ev("SyncTargetPatched", p.res.patch[1].name, "",
                            Added(Q, SyncTargetUpdateFunc(Q, p.res.patch[1].name, old, new)))
              /\ byExport' = updateIndices(byExport, indexSyncTargetsByExports(old),
                                           indexSyncTargetsByExports(new),
                                           SyncTargetKey(p.res.patch[1].name))
     ELSE /\ passes' = Put(Drop(passes, p), [p EXCEPT !.pc = "finish", !.res.err = TRUE])
          /\ UNCHANGED <<syncTargets, queue, dirty, processing, adds, last, byExport>>
  /\ UNCHANGED <<apiExports, schemas, imports, nextUID, waiting, failures, changes, budget, lifeVars, sink, bySchema, shardVars, enc>>

\* The tail of processNextWorkItem without the deferred Done.
WorkerFinishNoDone(p) ==
  /\ BagIn(p, passes)
  /\ p.pc = "finish"
  /\ IF p.res.err
     THEN /\ failures' = [failures EXCEPT ![p.key] = Min(@ + 1, MaxFailures)]
          /\ waiting' = IF phase = "shutdown" THEN waiting ELSE waiting \cup {p.key}
     ELSE /\ failures' = [failures EXCEPT ![p.key] = 0]
          /\ waiting' = waiting
  /\ passes' = Drop(passes, p)
  /\ UNCHANGED <<storeVars, queue, dirty, processing, adds, changes, budget, last, lifeVars, sink, idxVars, shardVars, enc>>

\* The tail of processNextWorkItem without the Forget on success.
WorkerFinishNoForget(p) ==
  /\ BagIn(p, passes)
  /\ p.pc = "finish"
  /\ IF p.res.err
     THEN /\ failures' = [failures EXCEPT ![p.key] = Min(@ + 1, MaxFailures)]
          /\ waiting' = IF phase = "shutdown" THEN waiting ELSE waiting \cup {p.key}
     ELSE /\ failures' = failures
          /\ waiting' = waiting
  /\ SetQ(QDone(Q, p.key))
  /\ passes' = Drop(passes, p)
  /\ UNCHANGED <<storeVars, changes, budget, last, lifeVars, sink, idxVars, shardVars, enc>>

\* The tail of processNextWorkItem with a retry limit: a key that has failed
\* MaxFailures times is forgotten instead of added again.
WorkerFinishRetryLimit(p) ==
  /\ BagIn(p, passes)
  /\ p.pc = "finish"
  /\ IF p.res.err /\ failures[p.key] < MaxFailures
     THEN /\ failures' = [failures EXCEPT ![p.key] = Min(@ + 1, MaxFailures)]
          /\ waiting' = IF phase = "shutdown" THEN waiting ELSE waiting \cup {p.key}
     ELSE /\ failures' = [failures EXCEPT ![p.key] = 0]
          /\ waiting' = waiting
  /\ SetQ(QDone(Q, p.key))
  /\ passes' = Drop(passes, p)
  /\ UNCHANGED <<storeVars, changes, budget, last, lifeVars, sink, idxVars, shardVars, enc>>

\* The tail of processNextWorkItem with the worker's loop ending on an error.
WorkerFinishQuitOnError(p) ==
  /\ BagIn(p, passes)
  /\ p.pc = "finish"
  /\ IF p.res.err
     THEN /\ failures' = [failures EXCEPT ![p.key] = Min(@ + 1, MaxFailures)]
          /\ waiting' = IF phase = "shutdown" THEN waiting ELSE waiting \cup {p.key}
          /\ exited' = exited + 1
     ELSE /\ failures' = [failures EXCEPT ![p.key] = 0]
          /\ waiting' = waiting
          /\ exited' = exited
  /\ SetQ(QDone(Q, p.key))
  /\ passes' = Drop(passes, p)
  /\ UNCHANGED <<storeVars, changes, budget, last, phase, sink, idxVars, shardVars, enc>>

\* The tail of processNextWorkItem with a rate limiter that keeps one
\* failure count for all keys.
WorkerFinishSharedLimiter(p) ==
  /\ BagIn(p, passes)
  /\ p.pc = "finish"
  /\ IF p.res.err
     THEN /\ failures' = [k \in Keys |-> Min(failures[k] + 1, MaxFailures)]
          /\ waiting' = IF phase = "shutdown" THEN waiting ELSE waiting \cup {p.key}
     ELSE /\ failures' = [k \in Keys |-> 0]
          /\ waiting' = waiting
  /\ SetQ(QDone(Q, p.key))
  /\ passes' = Drop(passes, p)
  /\ UNCHANGED <<storeVars, changes, budget, last, lifeVars, sink, idxVars, shardVars, enc>>

\* processNextWorkItem, lines 263-272: on an error AddRateLimited (the rate
\* limiter counts the failure and the key waits out its delay), otherwise
\* Forget; then the deferred Done, and the worker is back in Get.
WorkerFinish(p) ==
  /\ BagIn(p, passes)
  /\ p.pc = "finish"
  /\ IF p.res.err
     THEN /\ failures' = [failures EXCEPT ![p.key] = Min(@ + 1, MaxFailures)]
          /\ waiting' = IF phase = "shutdown" THEN waiting ELSE waiting \cup {p.key}
     ELSE /\ failures' = [failures EXCEPT ![p.key] = 0]
          /\ waiting' = waiting
  /\ SetQ(QDone(Q, p.key))
  /\ passes' = Drop(passes, p)
  /\ UNCHANGED <<storeVars, changes, budget, last, lifeVars, sink, idxVars, shardVars, enc>>

\* The delaying queue: the delay of a rate-limited key has run out and the
\* key is added.
WaitElapsed(k) ==
  /\ k \in waiting
  /\ waiting' = waiting \ {k}
  /\ SetQ(QAdd(Q, k))
  /\ UNCHANGED <<storeVars, failures, workerVars, changes, budget, last, lifeVars, sink, idxVars, shardVars, enc>>

\* -------------------------------------------------------------- lifecycle

\* The ctx handed to Start is cancelled.
Cancel ==
  /\ phase = "running"
  /\ phase' = "cancelled"
  /\ UNCHANGED <<storeVars, queueVars, workerVars, changes, budget, last, exited, sink, idxVars, shardVars, enc>>

\* Start without the wait for ctx.Done(): it returns, and shuts the queue
\* down, right after it has spawned the workers.
StartReturnsNoWait ==
  /\ phase \in {"running", "cancelled"}
  /\ phase' = "shutdown"
  /\ UNCHANGED <<storeVars, queueVars, workerVars, changes, budget, last, exited, sink, idxVars, shardVars, enc>>

\* Start, lines 236 and 245: <-ctx.Done() returns, Start returns and its
\* deferred queue.ShutDown() runs.
StartReturns ==
  /\ phase = "cancelled"
  /\ phase' = "shutdown"
  /\ UNCHANGED <<storeVars, queueVars, workerVars, changes, budget, last, exited, sink, idxVars, shardVars, enc>>

\* processNextWorkItem, lines 255-258, and startWorker: Get finds the queue
\* empty and shut down and returns quit; the worker's loop ends, and
\* wait.UntilWithContext, its ctx being done, does not start it again.
WorkerExit ==
  /\ phase = "shutdown"
  /\ queue = <<>>
  /\ BagCardinality(passes) + exited < NumWorkers
  /\ exited' = exited + 1
  /\ UNCHANGED <<storeVars, queueVars, workerVars, changes, budget, last, phase, sink, idxVars, shardVars, enc>>

\* ------------------------------------------------------- external changes

\* The values external actors give SupportedAPIExports.
SpecChoices == { <<Ref(ClusterPath, "E")>>, <<Ref("", "E"), Ref("", "F")>> }

\* The schemas that are created, updated and deleted; S3 stays as it is.
ChangingSchemas == {"S1", "S2"}

\* The values external actors give LatestResourceSchemas.
SchemaListChoices == { <<"S1">>, <<"S2">>, <<"S1", "S3">> }

\* A SyncTarget is created; AddFunc enqueues its key.
SyncTargetAdd(t, exports) ==
  /\ changes < budget
  /\ t \notin DOMAIN syncTargets
  /\ syncTargets' =
       [u \in DOMAIN syncTargets \cup {t} |->
          IF u = t THEN [exports |-> exports, synced |-> <<>>, uid |-> nextUID[t], rv |-> 1]
                   ELSE syncTargets[u]]
  /\ nextUID' = [nextUID EXCEPT ![t] = @ + 1]
  /\ SetQ(enqueueSyncTarget(Q, t))
  /\ changes' = changes + 1
  /\ last' = Ev("SyncTargetAdd", t, "", Added(Q, enqueueSyncTarget(Q, t)))
  /\ byExport' = updateIndices(byExport, {}, indexSyncTargetsByExports([exports |-> exports]),
                               SyncTargetKey(t))
  /\ UNCHANGED <<apiExports, schemas, imports, waiting, failures, workerVars, budget, lifeVars, sink, bySchema, shardVars, enc>>

\* A SyncTarget is updated by an external actor: its spec, or (exports
\* unchanged) some other part of it; UpdateFunc decides on the enqueue.
SyncTargetUpdate(t, exports) ==
  /\ changes < budget
  /\ t \in DOMAIN syncTargets
  /\ LET old == syncTargets[t]
         new == [old EXCEPT !.exports = exports, !.rv = @ + 1]
     IN  /\ syncTargets' = [syncTargets EXCEPT ![t] = new]
         /\ SetQ(SyncTargetUpdateFunc(Q, t, old, new))
         /\ last' = Ev("SyncTargetUpdate", t, "",
                       Added(Q, SyncTargetUpdateFunc(Q, t, old, new)))
         /\ byExport' = updateIndices(byExport, indexSyncTargetsByExports(old),
                                      indexSyncTargetsByExports(new), SyncTargetKey(t))
  /\ changes' = changes + 1
  /\ UNCHANGED <<apiExports, schemas, imports, nextUID, waiting, failures, workerVars, budget, lifeVars, sink, bySchema, shardVars, enc>>

\* A SyncTarget is deleted; DeleteFunc does nothing.
SyncTargetDelete(t) ==
  /\ changes < budget
  /\ t \in DOMAIN syncTargets
  /\ syncTargets' = [u \in DOMAIN syncTargets \ {t} |-> syncTargets[u]]
  /\ changes' = changes + 1
  /\ last' = Ev("SyncTargetDelete", t, "", {})
  /\ byExport' = updateIndices(byExport, indexSyncTargetsByExports(syncTargets[t]), {},
                               SyncTargetKey(t))
  /\ UNCHANGED <<apiExports, schemas, imports, nextUID, queueVars, workerVars, budget, lifeVars, sink, bySchema, shardVars, enc>>

\* An APIExport is created; AddFunc is enqueueAPIExport.
APIExportAdd(e, list, path) ==
  /\ changes < budget
  /\ e \notin DOMAIN apiExports
  /\ apiExports' =
       [x \in DOMAIN apiExports \cup {e} |->
          IF x = e THEN [schemas |-> list, path |-> path] ELSE apiExports[x]]
  /\ SetQ(enqueueAPIExport(Q, e, path))
  /\ changes' = changes + 1
  /\ last' = Ev("APIExportAdd", e, path, Added(Q, enqueueAPIExport(Q, e, path)))
  /\ bySchema' = updateIndices(bySchema, {},
                               indexAPIExportsByAPIResourceSchemas([schemas |-> list]), e)
  /\ UNCHANGED <<syncTargets, schemas, imports, nextUID, waiting, failures, workerVars, budget, lifeVars, sink, byExport, shardVars, enc>>

\* An APIExport is updated; UpdateFunc is enqueueAPIExport of the new object.
APIExportUpdate(e, list) ==
  /\ changes < budget
  /\ e \in DOMAIN apiExports
  /\ apiExports' = [apiExports EXCEPT ![e].schemas = list]
  /\ SetQ(enqueueAPIExport(Q, e, apiExports[e].path))
  /\ changes' = changes + 1
  /\ last' = Ev("APIExportUpdate", e, apiExports[e].path,
                Added(Q, enqueueAPIExport(Q, e, apiExports[e].path)))
  /\ bySchema' = updateIndices(bySchema, indexAPIExportsByAPIResourceSchemas(apiExports[e]),
                               indexAPIExportsByAPIResourceSchemas([schemas |-> list]), e)
  /\ UNCHANGED <<syncTargets, schemas, imports, nextUID, waiting, failures, workerVars, budget, lifeVars, sink, byExport, shardVars, enc>>

\* An APIExport is deleted; DeleteFunc is enqueueAPIExport of the object.
APIExportDelete(e) ==
  /\ changes < budget
  /\ e \in DOMAIN apiExports
  /\ apiExports' = [x \in DOMAIN apiExports \ {e} |-> apiExports[x]]
  /\ SetQ(enqueueAPIExport(Q, e, apiExports[e].path))
  /\ changes' = changes + 1
  /\ last' = Ev("APIExportDelete", e, apiExports[e].path,
                Added(Q, enqueueAPIExport(Q, e, apiExports[e].path)))
  /\ bySchema' = updateIndices(bySchema, indexAPIExportsByAPIResourceSchemas(apiExports[e]),
                               {}, e)
  /\ UNCHANGED <<syncTargets, schemas, imports, nextUID, waiting, failures, workerVars, budget, lifeVars, sink, byExport, shardVars, enc>>

\* The handler of every APIResourceSchema notification for schema n:
\* enqueueAPIResourceSchema, the exports taken from the by-schema index in
\* the order es.
SchemaEvent(op, n, es) ==
  /\ SetQ(enqueueExports(Q, es))
  /\ last' = Ev(op, n, "", Added(Q, enqueueExports(Q, es)))

\* An APIResourceSchema is created.
SchemaAdd(n) ==
  /\ changes < budget
  /\ n \notin schemas
  /\ schemas' = schemas \cup {n}
  /\ \E es \in Orders(APIExportsBySchema(ToClusterAwareKey(Cluster, "", n))) :
       SchemaEvent("SchemaAdd", n, es)
  /\ changes' = changes + 1
  /\ UNCHANGED <<syncTargets, apiExports, imports, nextUID, waiting, failures, workerVars, budget, lifeVars, sink, idxVars, shardVars, enc>>

\* An APIResourceSchema is updated.
SchemaUpdate(n) ==
  /\ changes < budget
  /\ n \in schemas
  /\ schemas' = schemas
  /\ \E es \in Orders(APIExportsBySchema(ToClusterAwareKey(Cluster, "", n))) :
       SchemaEvent("SchemaUpdate", n, es)
  /\ changes' = changes + 1
  /\ UNCHANGED <<syncTargets, apiExports, imports, nextUID, waiting, failures, workerVars, budget, lifeVars, sink, idxVars, shardVars, enc>>

\* An APIResourceSchema is deleted.
SchemaDelete(n) ==
  /\ changes < budget
  /\ n \in schemas
  /\ schemas' = schemas \ {n}
  /\ \E es \in Orders(APIExportsBySchema(ToClusterAwareKey(Cluster, "", n))) :
       SchemaEvent("SchemaDelete", n, es)
  /\ changes' = changes + 1
  /\ UNCHANGED <<syncTargets, apiExports, imports, nextUID, waiting, failures, workerVars, budget, lifeVars, sink, idxVars, shardVars, enc>>

\* An APIResourceImport is created; AddFunc is enqueueAPIResourceImport.
ImportAdd(i, loc, gvr) ==
  /\ changes < budget
  /\ i \notin DOMAIN imports
  /\ LET new == [location |-> loc, gvr |-> gvr, generation |-> 1]
     IN  /\ imports' = [x \in DOMAIN imports \cup {i} |-> IF x = i THEN new ELSE imports[x]]
         /\ SetQ(enqueueAPIResourceImport(Q, new))
         /\ last' = Ev("ImportAdd", i, "", Added(Q, enqueueAPIResourceImport(Q, new)))
  /\ changes' = changes + 1
  /\ UNCHANGED <<syncTargets, apiExports, schemas, nextUID, waiting, failures, workerVars, budget, lifeVars, sink, idxVars, shardVars, enc>>

\* An APIResourceImport is updated: a spec change (the resource; the server
\* raises Generation) or, with the resource unchanged, a status-only update.
\* UpdateFunc decides on the enqueue.
ImportUpdate(i, gvr) ==
  /\ changes < budget
  /\ i \in DOMAIN imports
  /\ LET old == imports[i]
         new == [old EXCEPT !.gvr = gvr,
                            !.generation = IF gvr # old.gvr THEN @ + 1 ELSE @]
     IN  /\ imports' = [imports EXCEPT ![i] = new]
         /\ SetQ(ImportUpdateFunc(Q, old, new))
         /\ last' = Ev("ImportUpdate", i, "", Added(Q, ImportUpdateFunc(Q, old, new)))
  /\ changes' = changes + 1
  /\ UNCHANGED <<syncTargets, apiExports, schemas, nextUID, waiting, failures, workerVars, budget, lifeVars, sink, idxVars, shardVars, enc>>

\* An APIResourceImport is deleted; DeleteFunc does nothing.
ImportDelete(i) ==
  /\ changes < budget
  /\ i \in DOMAIN imports
  /\ imports' = [x \in DOMAIN imports \ {i} |-> imports[x]]
  /\ changes' = changes + 1
  /\ last' = Ev("ImportDelete", i, "", {})
  /\ UNCHANGED <<syncTargets, apiExports, schemas, nextUID, queueVars, workerVars, budget, lifeVars, sink, idxVars, shardVars, enc>>

\* ------------------------------------------------------------------ panics

\* process panics in the pass p (lines 275-356 hold no recover).  The
\* deferred queue.Done(key) of processNextWorkItem (line 263) runs while the
\* panic unwinds; AddRateLimited and Forget are not reached.  Neither
\* startWorker nor processNextWorkItem recovers, and the HandleCrash that
\* Start defers (line 235) is on another goroutine, so the panic leaves the
\* worker function and reaches wait.UntilWithContext (line 242).  What
\* happens there is the library's doing and either outcome is taken: with
\* crash the panic is raised again and ends the process, all workers with
\* it; without, it is logged and the worker function is started again.
WorkerPanic(p, crash) ==
  /\ BagIn(p, passes)
  /\ SetQ(QDone(Q, p.key))
  /\ last' = Ev("WorkerPanic", SplitMetaClusterNamespaceKey(p.key).name, "", {})
  /\ IF crash
     THEN /\ phase' = "crashed"
          /\ passes' = EmptyBag
          /\ exited' = NumWorkers
     ELSE /\ passes' = Drop(passes, p)
          /\ UNCHANGED <<phase, exited>>
  /\ UNCHANGED <<storeVars, waiting, failures, changes, budget, sink, idxVars, shardVars, enc>>

\* --------------------------------------------------------- handler failures

\* The handlers whose first statement rejects the object they are given:
\* enqueueSyncTarget and enqueueAPIResourceSchema (no key can be derived),
\* enqueueAPIResourceImport and enqueueAPIExport (not of the expected type).
Handlers == {"SyncTarget", "APIResourceImport", "APIExport", "APIResourceSchema"}

\* Handler h is called with an object it rejects: the error is handed to
\* runtime.HandleError and the handler returns.
RouteFault(h) ==
  /\ sink < MaxFaults
  /\ sink' = sink + 1
  /\ last' = Ev("RouteFault", h, "", {})
  /\ UNCHANGED <<storeVars, queueVars, workerVars, changes, budget, lifeVars, idxVars, shardVars, enc>>

\* An APIExport is updated and enqueueAPIExport of the new object meets a
\* failure: an index lookup error (idx), or keys for which the loop fails
\* (lost).
APIExportUpdateFailing(e, list, idx, lost) ==
  /\ changes < budget
  /\ e \in DOMAIN apiExports
  /\ idx => lost = {}
  /\ enqueueAPIExportFailing(Q, e, apiExports[e].path, idx, lost).errs > 0
  /\ sink + enqueueAPIExportFailing(Q, e, apiExports[e].path, idx, lost).errs <= MaxFaults
  /\ lost \subseteq ExportKeys(e, apiExports[e].path)
  /\ apiExports' = [apiExports EXCEPT ![e].schemas = list]
  /\ SetQ(enqueueAPIExportFailing(Q, e, apiExports[e].path, idx, lost).q)
  /\ sink' = sink + enqueueAPIExportFailing(Q, e, apiExports[e].path, idx, lost).errs
  /\ changes' = changes + 1
  /\ last' = Ev(IF idx THEN "APIExportIndexFault" ELSE "APIExportKeyFault",
                e, apiExports[e].path,
                Added(Q, enqueueAPIExportFailing(Q, e, apiExports[e].path, idx, lost).q))
  /\ bySchema' = updateIndices(bySchema, indexAPIExportsByAPIResourceSchemas(apiExports[e]),
                               indexAPIExportsByAPIResourceSchemas([schemas |-> list]), e)
  /\ UNCHANGED <<syncTargets, schemas, imports, nextUID, waiting, failures, workerVars, budget, lifeVars, byExport, shardVars, enc>>

\* An APIResourceSchema is updated and enqueueAPIResourceSchema meets a
\* failure: the ByIndex lookup returns an error (f = "index") and the
\* function returns, or the enqueueAPIExport call for export f of its loop
\* fails on an index lookup and the loop goes on with the other exports.
SchemaUpdateFailing(n, f) ==
  /\ changes < budget
  /\ sink < MaxFaults
  /\ n \in schemas
  /\ f \in {"index"} \cup APIExportsBySchema(ToClusterAwareKey(Cluster, "", n))
  /\ schemas' = schemas
  /\ \E es \in Orders(APIExportsBySchema(ToClusterAwareKey(Cluster, "", n)) \ {f}) :
       LET q2 == IF f = "index" THEN Q ELSE enqueueExports(Q, es)
       IN  /\ SetQ(q2)
           /\ last' = Ev(IF f = "index" THEN "SchemaIndexFault" ELSE "SchemaExportFault",
                         n, "", Added(Q, q2))
  /\ sink' = sink + 1
  /\ changes' = changes + 1
  /\ UNCHANGED <<syncTargets, apiExports, imports, nextUID, waiting, failures, workerVars, budget, lifeVars, idxVars, shardVars, enc>>

\* ------------------------------------------------------------------- next

Next ==
  \/ WorkerGet
  \/ \E p \in BagToSet(passes) : WorkerPatch(p)
  \/ \E p \in BagToSet(passes) : WorkerFinish(p)
  \/ \E k \in Keys : WaitElapsed(k)
  \/ \E t \in Targets, x \in SpecChoices : SyncTargetAdd(t, x)
  \/ \E t \in DOMAIN syncTargets :
       \E x \in SpecChoices \cup {syncTargets[t].exports} : SyncTargetUpdate(t, x)
  \/ \E t \in Targets : SyncTargetDelete(t)
  \/ \E e \in ExportNames, l \in SchemaListChoices, p \in {"", ClusterPath} : APIExportAdd(e, l, p)
  \/ \E e \in ExportNames, l \in SchemaListChoices : APIExportUpdate(e, l)
  \/ \E e \in ExportNames : APIExportDelete(e)
  \/ \E n \in ChangingSchemas : SchemaAdd(n)
  \/ \E n \in ChangingSchemas : SchemaUpdate(n)
  \/ \E n \in ChangingSchemas : SchemaDelete(n)
  \/ \E i \in ImportNames, t \in Targets, g \in Resources : ImportAdd(i, t, g)
  \/ \E i \in ImportNames, g \in Resources : ImportUpdate(i, g)
  \/ \E i \in ImportNames : ImportDelete(i)

Spec == Init /\ [][Next]_vars

\* ------------------------------------------------------------------ burst

\* A second specification: the controller in the "import" situation while an
\* external actor rewrites the spec of SyncTarget T2 up to MaxBurst times, so
\* that one key is added many times over.
InitBurst == InitWith({"import"}, MaxBurst)

NextBurst ==
  \/ WorkerGet
  \/ \E p \in BagToSet(passes) : WorkerPatch(p)
  \/ \E p \in BagToSet(passes) : WorkerFinish(p)
  \/ \E k \in Keys : WaitElapsed(k)
  \/ \E x \in SpecChoices : SyncTargetUpdate("T2", x)

SpecBurst == InitBurst /\ [][NextBurst]_vars

\* --------------------------------------------------------------- shutdown

\* A third specification: the controller from Start to the end of its
\* workers.  The ctx is cancelled at any moment, Start returns and shuts the
\* queue down, and the workers leave their loops; meanwhile external actors
\* rewrite SyncTarget specs.  The goroutines of Start and of the workers are
\* scheduled fairly, and a PATCH request returns.

\* Whether WorkerGet can be taken: a worker is blocked in Get and the queue
\* holds an item.
WorkerGetEnabled ==
  /\ BagCardinality(passes) + exited < NumWorkers
  /\ queue # <<>>

\* Weak fairness of WorkerGet, WF_vars(WorkerGet), written out with the
\* condition under which the step can be taken: a worker blocked in Get is
\* woken when the queue holds an item.
FairGet == ([]<>(~WorkerGetEnabled)) \/ ([]<><<WorkerGet>>_vars)

NextStop ==
  \/ WorkerGet
  \/ \E p \in BagToSet(passes) : WorkerPatch(p)
  \/ \E p \in BagToSet(passes) : WorkerFinish(p)
  \/ \E k \in Keys : WaitElapsed(k)
  \/ Cancel
  \/ StartReturns
  \/ WorkerExit
  \/ \E t \in DOMAIN syncTargets, x \in SpecChoices : SyncTargetUpdate(t, x)

SpecStop ==
  /\ Init
  /\ [][NextStop]_vars
  /\ FairGet
  /\ WF_vars(\E p \in BagToSet(passes) : WorkerPatch(p))
  /\ WF_vars(\E p \in BagToSet(passes) : WorkerFinish(p))
  /\ WF_vars(StartReturns)
  /\ WF_vars(WorkerExit)

\* ------------------------------------------------------------------ retry

\* A fourth specification: the controller in the retry situations, while
\* external actors create and delete APIExports and APIResourceSchemas, so
\* that references of SyncTargets stop and start to resolve.  The workers
\* are scheduled fairly, every pass in progress goes on, a PATCH request
\* returns, and the delay of a key that waits runs out.
InitRetry == InitWith(RetryScenarios, MaxChanges)

NextRetry ==
  \/ WorkerGet
  \/ \E p \in BagToSet(passes) : WorkerPatch(p)
  \/ \E p \in BagToSet(passes) : WorkerFinish(p)
  \/ \E k \in Keys : WaitElapsed(k)
  \/ \E e \in ExportNames, l \in SchemaListChoices, p \in {"", ClusterPath} : APIExportAdd(e, l, p)
  \/ \E e \in ExportNames : APIExportDelete(e)
  \/ \E n \in ChangingSchemas : SchemaAdd(n)
  \/ \E n \in ChangingSchemas : SchemaDelete(n)

SpecRetry ==
  /\ InitRetry
  /\ [][NextRetry]_vars
  /\ FairGet
  /\ \A k \in Keys : WF_vars(\E p \in BagToSet(passes) : p.key = k /\ WorkerPatch(p))
  /\ \A k \in Keys : WF_vars(\E p \in BagToSet(passes) : p.key = k /\ WorkerFinish(p))
  /\ \A k \in Keys : WF_vars(WaitElapsed(k))

\* ------------------------------------------------------------------ chain

\* The declared references and the values of SupportedAPIExports the chain
\* is run on: one or two references, each by logical cluster or by path.
ChainRefs == {Ref(pa, e) : pa \in {"", ClusterPath}, e \in ExportNames}
ChainExports == {<<r>> : r \in ChainRefs} \cup {<<r1, r2>> : r1, r2 \in ChainRefs}

\* A seventh specification, for the reconcile pass as a function of the
\* Store: T1 is the one SyncTarget, with any of ChainExports; each of the
\* exports E (annotated with the path, serving S1) and F (serving S2) is
\* stored or not, and so is each of the schemas S1 and S2; imports back both
\* resources at T1.  T1's key is pending and the workers run its pass.
InitChain ==
  /\ \E x \in ChainExports :
       syncTargets = [t \in {"T1"} |-> [exports |-> x, synced |-> <<>>, uid |-> 1, rv |-> 1]]
  /\ \E es \in SUBSET ExportNames :
       apiExports = [e \in es |-> IF e = "E" THEN [schemas |-> <<"S1">>, path |-> ClusterPath]
                                            ELSE [schemas |-> <<"S2">>, path |-> ""]]
  /\ \E ss \in SUBSET ChangingSchemas : schemas = ss \cup {"S3"}
  /\ imports = [i \in ImportNames |->
                  [location |-> "T1", gvr |-> IF i = "I1" THEN "cowboys" ELSE "sheriffs",
                   generation |-> 1]]
  /\ nextUID = [t \in Targets |-> IF t = "T1" THEN 2 ELSE 1]
  /\ queue = <<SyncTargetKey("T1")>>
  /\ dirty = {SyncTargetKey("T1")}
  /\ processing = {}
  /\ waiting = {}
  /\ failures = [k \in Keys |-> 0]
  /\ adds = [k \in Keys |-> IF k = SyncTargetKey("T1") THEN 1 ELSE 0]
  /\ passes = EmptyBag
  /\ changes = 0
  /\ budget = 0
  /\ last = Ev("none", "", "", {})
  /\ phase = "running"
  /\ exited = 0
  /\ sink = 0
  /\ byExport = [v \in ExportValues |-> SyncTargetsByExport(v)]
  /\ bySchema = [k \in SchemaKeys |-> APIExportsBySchema(k)]
  /\ shard = Absent
  /\ env = Absent
  /\ enc = Absent

NextChain ==
  \/ WorkerGet
  \/ \E p \in BagToSet(passes) : WorkerPatch(p)
  \/ \E p \in BagToSet(passes) : WorkerFinish(p)

SpecChain == InitChain /\ [][NextChain]_vars

\* ----------------------------------------------------------------- panics

\* A sixth specification: the controller and its environment as in Spec,
\* with passes that panic.  A process that a panic has ended takes no step.
NextPanic ==
  /\ phase # "crashed"
  /\ \/ Next
     \/ \E p \in BagToSet(passes), crash \in BOOLEAN : WorkerPanic(p, crash)

SpecPanic == Init /\ [][NextPanic]_vars

\* ------------------------------------------------------- routing failures

\* A fifth specification: the workers, the creation of SyncTargets, updates
\* of APIExports and APIResourceSchemas, and up to MaxFaults failures of
\* handler runs.
NextRoute ==
  \/ WorkerGet
  \/ \E p \in BagToSet(passes) : WorkerPatch(p)
  \/ \E p \in BagToSet(passes) : WorkerFinish(p)
  \/ \E t \in Targets, x \in SpecChoices : SyncTargetAdd(t, x)
  \/ \E e \in ExportNames, l \in SchemaListChoices : APIExportUpdate(e, l)
  \/ \E n \in ChangingSchemas : SchemaUpdate(n)
  \/ \E h \in Handlers : RouteFault(h)
  \/ \E e \in ExportNames, l \in SchemaListChoices, idx \in BOOLEAN, lost \in SUBSET Keys :
       APIExportUpdateFailing(e, l, idx, lost)
  \/ \E n \in ChangingSchemas, f \in {"index"} \cup ExportNames : SchemaUpdateFailing(n, f)

SpecRoute == Init /\ [][NextRoute]_vars

\* ------------------------------------------------------ deletions unseen

\* APIExport e is deleted and the informer, which did not see the deletion,
\* delivers it in a wrapper; DeleteFunc is enqueueAPIExport.
APIExportDeleteTombstone(e) ==
  /\ changes < budget
  /\ e \in DOMAIN apiExports
  /\ apiExports' = [x \in DOMAIN apiExports \ {e} |-> apiExports[x]]
  /\ SetQ(enqueueAPIExportObj(Q, Tombstone(ExportObj(e))).q)
  /\ sink' = sink + enqueueAPIExportObj(Q, Tombstone(ExportObj(e))).errs
  /\ changes' = changes + 1
  /\ last' = Ev("APIExportDeleteTombstone", e, apiExports[e].path,
                Added(Q, enqueueAPIExportObj(Q, Tombstone(ExportObj(e))).q))
  /\ bySchema' = updateIndices(bySchema, indexAPIExportsByAPIResourceSchemas(apiExports[e]),
                               {}, e)
  /\ UNCHANGED <<syncTargets, schemas, imports, nextUID, waiting, failures, workerVars, budget, lifeVars, byExport, shardVars, enc>>

\* APIResourceSchema n is deleted and the informer delivers the deletion in
\* a wrapper; DeleteFunc is enqueueAPIResourceSchema.
SchemaDeleteTombstone(n, ord) ==
  /\ changes < budget
  /\ n \in schemas
  /\ schemas' = schemas \ {n}
  /\ SetQ(enqueueAPIResourceSchemaObj(Q, Tombstone(SchemaObj(n)), ord).q)
  /\ sink' = sink + enqueueAPIResourceSchemaObj(Q, Tombstone(SchemaObj(n)), ord).errs
  /\ changes' = changes + 1
  /\ last' = Ev("SchemaDeleteTombstone", n, "",
                Added(Q, enqueueAPIResourceSchemaObj(Q, Tombstone(SchemaObj(n)), ord).q))
  /\ UNCHANGED <<syncTargets, apiExports, imports, nextUID, waiting, failures, workerVars, budget, lifeVars, idxVars, shardVars, enc>>

\* A tenth specification: the controller while APIExports and
\* APIResourceSchemas are deleted, the deletion delivered with the object
\* or in a wrapper.
NextTombstone ==
  \/ WorkerGet
  \/ \E p \in BagToSet(passes) : WorkerPatch(p)
  \/ \E p \in BagToSet(passes) : WorkerFinish(p)
  \/ \E k \in Keys : WaitElapsed(k)
  \/ \E e \in ExportNames : APIExportDelete(e)
  \/ \E n \in ChangingSchemas : SchemaDelete(n)
  \/ \E e \in ExportNames : APIExportDeleteTombstone(e)
  \/ \E n \in ChangingSchemas, ord \in Orders(ExportNames) : SchemaDeleteTombstone(n, ord)

SpecTombstone == Init /\ [][NextTombstone]_vars

\* ------------------------------------------------------------------ shard

\* Shard.Start, lines 72-131: the audit policy and the log file are written
\* and the kcp command is started; each of these can fail (ok = FALSE), and
\* cmd.Start fails when ctx is done already; Start then returns the error.
\* Otherwise the process runs, terminatedCh is made and Start enters its
\* loop.
StartSetup(ok) ==
  /\ shard.start = "new"
  /\ ok => env.ctx = "live"
  /\ IF ok
     THEN /\ shard' = [shard EXCEPT !.start = "select"]
          /\ env' = [env EXCEPT !.proc = "running"]
     ELSE /\ shard' = [shard EXCEPT !.start = "returned", !.startRet = "failed"]
          /\ env' = env
  /\ UNCHANGED <<controllerVars, enc>>

\* The select of Start's loop with a default that can be taken although
\* another case is ready.
StartSelectMayDefault(c) ==
  /\ shard.start = "select"
  /\ CASE c = "ctx" ->
            /\ env.ctx = "done"
            /\ shard' = [shard EXCEPT !.start = "returned", !.startRet = "canceled"]
       [] c = "terminated" ->
            /\ shard.terminatedCh # <<>>
            /\ shard' = [shard EXCEPT !.start = "returned", !.startRet = "terminated",
                                      !.terminatedCh = Tail(@)]
       [] OTHER ->
            /\ shard' = [shard EXCEPT !.start = "stat"]
  /\ UNCHANGED <<controllerVars, env, enc>>

\* Start, lines 151-163: the select of the loop.  A case that is ready is
\* taken (one of them, when both are): ctx.Done() returns "context
\* canceled", a value received from terminatedCh returns the error made of
\* it, whatever the value, nil (exit code 0) included.  With no case ready
\* the default is taken and the loop goes on to its Stat.
StartSelect(c) ==
  /\ shard.start = "select"
  /\ CASE c = "ctx" ->
            /\ env.ctx = "done"
            /\ shard' = [shard EXCEPT !.start = "returned", !.startRet = "canceled"]
       [] c = "terminated" ->
            /\ shard.terminatedCh # <<>>
            /\ shard' = [shard EXCEPT !.start = "returned", !.startRet = "terminated",
                                      !.terminatedCh = Tail(@)]
       [] OTHER ->
            /\ env.ctx = "live"
            /\ shard.terminatedCh = <<>>
            /\ shard' = [shard EXCEPT !.start = "stat"]
  /\ UNCHANGED <<controllerVars, env, enc>>

\* Start, lines 164-171: os.Stat of admin.kubeconfig.  Found, the loop is
\* left and Start returns nil; otherwise Start sleeps and comes back to the
\* select.
StartStat ==
  /\ shard.start = "stat"
  /\ shard' = IF env.file
              THEN [shard EXCEPT !.start = "returned", !.startRet = "nil"]
              ELSE [shard EXCEPT !.start = "select"]
  /\ UNCHANGED <<controllerVars, env, enc>>

\* The ctx handed to Start and WaitForReady is cancelled.
CtxCancel ==
  /\ env.ctx = "live"
  /\ env' = [env EXCEPT !.ctx = "done",
                        !.cancelBeforeFile = ~env.file,
                        !.cancelAt = shard.start]
  /\ UNCHANGED <<controllerVars, shard, enc>>

\* Start's goroutine of lines 133-138: ctx is done and the process is
\* killed.
KillProcess ==
  /\ env.ctx = "done"
  /\ env.proc = "running"
  /\ env' = [env EXCEPT !.proc = "exited", !.exit = "killed", !.ready = FALSE,
                        !.exitBeforeFile = @ \/ ~env.file]
  /\ UNCHANGED <<controllerVars, shard, enc>>

\* The kcp process writes admin.kubeconfig into the runtime directory.
ProcessWritesKubeconfig ==
  /\ env.proc = "running"
  /\ ~env.file
  /\ env' = [env EXCEPT !.file = TRUE]
  /\ UNCHANGED <<controllerVars, shard, enc>>

\* The exits of the process by itself: with code 0, with another code, or
\* so that cmd.Wait returns an error that is no exit error.
Exits == {"zero", "nonzero", "unknown"}

\* The kcp process terminates by itself.
ProcessExits(x) ==
  /\ env.proc = "running"
  /\ env' = [env EXCEPT !.proc = "exited", !.exit = x, !.ready = FALSE,
                        !.exitBeforeFile = @ \/ ~env.file]
  /\ UNCHANGED <<controllerVars, shard, enc>>

\* Start's goroutine of lines 141-145: cmd.Wait() has returned and its
\* result is sent to terminatedCh, whose buffer takes it.
WaitReturns ==
  /\ env.proc = "exited"
  /\ ~env.sent
  /\ env' = [env EXCEPT !.sent = TRUE]
  /\ shard' = [shard EXCEPT !.terminatedCh = Append(@, env.exit)]
  /\ UNCHANGED <<controllerVars, enc>>

\* The server's /readyz starts or stops to answer 200.
ServerReady(b) ==
  /\ env.proc = "running"
  /\ env.ready # b
  /\ env' = [env EXCEPT !.ready = b]
  /\ UNCHANGED <<controllerVars, shard, enc>>

\* WaitForReady is called on a Shard whose Start has returned; its loop
\* begins with a sleep.
WaitForReadyCall ==
  /\ shard.start = "returned"
  /\ shard.startRet # "failed"
  /\ shard.wfr = "new"
  /\ shard' = [shard EXCEPT !.wfr = "select"]
  /\ UNCHANGED <<controllerVars, env, enc>>

\* WaitForReady, lines 183-195: the select of the loop, as in Start; the
\* errors are returned with a nil channel.
WaitForReadySelect(c) ==
  /\ shard.wfr = "select"
  /\ CASE c = "ctx" ->
            /\ env.ctx = "done"
            /\ shard' = [shard EXCEPT !.wfr = "returned", !.wfrRet = "canceled"]
       [] c = "terminated" ->
            /\ shard.terminatedCh # <<>>
            /\ shard' = [shard EXCEPT !.wfr = "returned", !.wfrRet = "terminated",
                                      !.terminatedCh = Tail(@)]
       [] OTHER ->
            /\ env.ctx = "live"
            /\ shard.terminatedCh = <<>>
            /\ shard' = [shard EXCEPT !.wfr = "load"]
  /\ UNCHANGED <<controllerVars, env, enc>>

\* WaitForReady, lines 197-210: the kubeconfig is loaded and a client made
\* of it.  Without the file that fails, and it can fail with it (ok =
\* FALSE); the loop then goes on with its next round.
WaitForReadyLoad(ok) ==
  /\ shard.wfr = "load"
  /\ ok => env.file
  /\ shard' = [shard EXCEPT !.wfr = IF ok THEN "request" ELSE "select"]
  /\ UNCHANGED <<controllerVars, env, enc>>

\* Whether a GET of /readyz made with ctx is answered with 200 now.
Answers200 == env.proc = "running" /\ env.ready /\ env.ctx = "live"

\* WaitForReady leaving its loop after any /readyz request.
WaitForReadyRequestAnyStatus ==
  /\ shard.wfr = "request"
  /\ shard' = [shard EXCEPT !.wfr = "returned", !.wfrRet = "channel"]
  /\ env' = [env EXCEPT !.ok200 = @ \/ Answers200]
  /\ UNCHANGED <<controllerVars, enc>>

\* WaitForReady, lines 212-239: GET /readyz.  With status 200 the loop is
\* left and terminatedCh is returned with a nil error; with any other
\* outcome the loop goes on with its next round.
WaitForReadyRequest ==
  /\ shard.wfr = "request"
  /\ IF Answers200
     THEN /\ shard' = [shard EXCEPT !.wfr = "returned", !.wfrRet = "channel"]
          /\ env' = [env EXCEPT !.ok200 = TRUE]
     ELSE /\ shard' = [shard EXCEPT !.wfr = "select"]
          /\ env' = env
  /\ UNCHANGED <<controllerVars, enc>>

\* What select can be asked to take.
Cases == {"ctx", "terminated", "default"}

\* A twelfth specification: one Shard, from NewShard through Start and
\* WaitForReady, with its ctx, its kcp process and the server's readiness.
\* The runtime directory may hold an admin.kubeconfig from an earlier run.
\* The controller is at rest.  The goroutines of the Shard and of the
\* caller are scheduled fairly.
InitShard ==
  /\ InitController({"resync"}, 0, Keys)
  /\ shard = ShardNew
  /\ \E f \in BOOLEAN : env = EnvNew(f)
  /\ enc = Absent

NextShard ==
  \/ \E ok \in BOOLEAN : StartSetup(ok)
  \/ \E c \in Cases : StartSelect(c)
  \/ StartStat
  \/ CtxCancel
  \/ KillProcess
  \/ ProcessWritesKubeconfig
  \/ \E x \in Exits : ProcessExits(x)
  \/ WaitReturns
  \/ \E b \in BOOLEAN : ServerReady(b)
  \/ WaitForReadyCall
  \/ \E c \in Cases : WaitForReadySelect(c)
  \/ \E ok \in BOOLEAN : WaitForReadyLoad(ok)
  \/ WaitForReadyRequest

SpecShard ==
  /\ InitShard
  /\ [][NextShard]_vars
  /\ WF_vars(\E c \in Cases : StartSelect(c))
  /\ WF_vars(StartStat)
  /\ WF_vars(KillProcess)
  /\ WF_vars(WaitReturns)
  /\ WF_vars(\E c \in Cases : WaitForReadySelect(c))
  /\ WF_vars(\E ok \in BOOLEAN : WaitForReadyLoad(ok))
  /\ WF_vars(WaitForReadyRequest)

\* ------------------------------------------------------------- key strings

\* Keys and index values as the strings they are, a string being the
\* sequence of its characters.  The keys of the other specifications are
\* these with their parts kept apart: <<cluster, namespace, name>> stands
\* for the key of a name without separators, MalformedKey for the key of
\* the Location "a/b/T1".

\* The strings of 1 to n characters out of cs.
Strings(cs, n) == UNION {[1..m -> cs] : m \in 1..n}

\* strings.Split(s, sep) for a separator of one character.
RECURSIVE StringsSplit(_, _)
StringsSplit(s, sep) ==
  IF s = <<>> THEN << <<>> >>
  ELSE LET r == StringsSplit(Tail(s), sep)
       IN IF Head(s) = sep
          THEN << <<>> >> \o r
          ELSE << <<Head(s)>> \o r[1] >> \o Tail(r)

\* A key made of the cluster and the name with nothing between them.
ToClusterAwareKeyNoSeparator(cluster, namespace, name) ==
  cluster \o namespace \o name

\* kcpcache.ToClusterAwareKey, called at line 169: the cluster and "|" when
\* there is a cluster, the namespace and "/" when there is a namespace, and
\* the name.
ToClusterAwareKeyString(cluster, namespace, name) ==
  (IF cluster # <<>> THEN cluster \o <<"|">> ELSE <<>>)
    \o (IF namespace # <<>> THEN namespace \o <<"/">> ELSE <<>>)
    \o name

\* cache.SplitMetaNamespaceKey: the key is split at "/"; one part is a name
\* without namespace, two are namespace and name, more are an error.
SplitMetaNamespaceKeyString(key) ==
  LET parts == StringsSplit(key, "/")
  IN CASE Len(parts) = 1 -> [err |-> FALSE, namespace |-> <<>>, name |-> parts[1]]
       [] Len(parts) = 2 -> [err |-> FALSE, namespace |-> parts[1], name |-> parts[2]]
       [] OTHER -> [err |-> TRUE, namespace |-> <<>>, name |-> <<>>]

\* kcpcache.SplitMetaClusterNamespaceKey, called at line 276: the key is
\* split at "|"; one part is a key without cluster, two are the cluster and
\* the namespace key, more are an error, as is an error of the namespace
\* key.
SplitMetaClusterNamespaceKeyString(key) ==
  LET outerParts == StringsSplit(key, "|")
      inner == SplitMetaNamespaceKeyString(outerParts[Len(outerParts)])
      cluster == IF Len(outerParts) = 2 THEN outerParts[1] ELSE <<>>
  IN IF Len(outerParts) > 2 \/ inner.err
     THEN [err |-> TRUE, cluster |-> <<>>, namespace |-> <<>>, name |-> <<>>]
     ELSE [err |-> FALSE, cluster |-> cluster,
           namespace |-> inner.namespace, name |-> inner.name]

\* logicalcluster.Path.Join(name).String(), lines 189 and 197: the path,
\* ":" and the name; the name alone for the empty path.
PathJoinString(path, name) ==
  IF path = <<>> THEN name ELSE path \o <<":">> \o name

\* The names of logical clusters and of stored objects: no separator is
\* allowed in them.
ClusterNameStrings == Strings({"a"}, MaxNameLen)
ObjectNameStrings == Strings({"a"}, MaxNameLen)

\* The logical paths, names joined by ":", and with them the cluster names,
\* which Path() turns into paths of one name.
PathStrings ==
  {p \in Strings({"a", ":"}, MaxNameLen) :
     \A i \in 1..Len(StringsSplit(p, ":")) : StringsSplit(p, ":")[i] # <<>>}

\* What Spec.Location of an APIResourceImport can hold, and what the name
\* of an export reference in a SyncTarget's spec can hold: any string.
LocationStrings == Strings({"a", "|", "/"}, MaxNameLen)
ReferenceNameStrings == Strings({"a", ":"}, MaxNameLen)

\* enqueueAPIResourceImport, line 169, builds the key of (cluster, "",
\* Location), and process, line 276, splits it.
BuildKey(cluster, name) ==
  /\ enc' = [op |-> "key", x |-> cluster, y |-> name,
             k |-> ToClusterAwareKeyString(cluster, <<>>, name),
             split |-> SplitMetaClusterNamespaceKeyString(
                         ToClusterAwareKeyString(cluster, <<>>, name))]
  /\ UNCHANGED <<controllerVars, shardVars>>

\* enqueueAPIExport, lines 189 and 197, builds the by-export index value of
\* a path or cluster and an export name, as the index function does for
\* the references of a SyncTarget.
BuildIndexValue(path, name) ==
  /\ enc' = [op |-> "index", x |-> path, y |-> name,
             k |-> PathJoinString(path, name), split |-> EncNone.split]
  /\ UNCHANGED <<controllerVars, shardVars>>

\* A thirteenth specification: keys and index values are built, one after
\* another, of every cluster name, path and name up to MaxNameLen
\* characters.  The controller is at rest.
InitKeys ==
  /\ InitController({"resync"}, 0, Keys)
  /\ shard = Absent
  /\ env = Absent
  /\ enc = EncNone

NextKeys ==
  \/ \E cluster \in ClusterNameStrings, name \in LocationStrings :
       BuildKey(cluster, name)
  \/ \E path \in PathStrings, name \in ReferenceNameStrings :
       BuildIndexValue(path, name)

SpecKeys == InitKeys /\ [][NextKeys]_vars

\* -------------------------------------------------------------- malformed

\* An eleventh specification: the controller while APIResourceImports are
\* created, at SyncTargets or at a Location that is no name, so that the
\* queue comes to hold a key that cannot be split.
InitMalformed == InitOver(Scenarios, MaxChanges, QueueKeys)

NextMalformed ==
  \/ WorkerGet
  \/ \E p \in BagToSet(passes) : WorkerPatch(p)
  \/ \E p \in BagToSet(passes) : WorkerFinish(p)
  \/ \E k \in QueueKeys : WaitElapsed(k)
  \/ \E i \in ImportNames, loc \in Targets \cup {MalformedLocation}, g \in Resources :
       ImportAdd(i, loc, g)

SpecMalformed == InitMalformed /\ [][NextMalformed]_vars

\* ------------------------------------------------------------------- pool

\* A ninth specification, for the worker pool over the whole life of Start:
\* the workers and the delaying queue, APIExport updates whose fan-out puts
\* several keys in the queue at once, the cancellation of ctx, the return
\* of Start with the queue's shutdown, and the end of the workers' loops.
NextPool ==
  \/ WorkerGet
  \/ \E p \in BagToSet(passes) : WorkerPatch(p)
  \/ \E p \in BagToSet(passes) : WorkerFinish(p)
  \/ \E k \in Keys : WaitElapsed(k)
  \/ \E e \in ExportNames, l \in SchemaListChoices : APIExportUpdate(e, l)
  \/ Cancel
  \/ StartReturns
  \/ WorkerExit

SpecPool == Init /\ [][NextPool]_vars

\* ----------------------------------------------------------------- settle

\* An eighth specification: the controller left to itself.  It starts in
\* one of the situations of Spec or of the chain specification and no
\* external actor changes anything: the steps are those of the workers and
\* of the delaying queue.  The workers are scheduled fairly, every pass in
\* progress goes on, a PATCH request returns, and the delay of a key that
\* waits runs out.
InitSettle == InitWith(Scenarios, 0) \/ InitChain

NextSettle ==
  \/ WorkerGet
  \/ \E p \in BagToSet(passes) : WorkerPatch(p)
  \/ \E p \in BagToSet(passes) : WorkerFinish(p)
  \/ \E k \in Keys : WaitElapsed(k)

SpecSettle ==
  /\ InitSettle
  /\ [][NextSettle]_vars
  /\ FairGet
  /\ \A k \in Keys : WF_vars(\E p \in BagToSet(passes) : p.key = k /\ WorkerPatch(p))
  /\ \A k \in Keys : WF_vars(\E p \in BagToSet(passes) : p.key = k /\ WorkerFinish(p))
  /\ \A k \in Keys : WF_vars(WaitElapsed(k))

\* ------------------------------------------------------------- properties

\* The number of passes in progress for key k.
InProgress(k) ==
  BagCardinality([p \in {q \in BagToSet(passes) : q.key = k} |-> passes[p]])

\* The name of the SyncTarget pass p is about.
NameOf(p) == SplitMetaClusterNamespaceKey(p.key).name

\* Pass p starts in this step: a worker has dequeued its key and run process
\* on it up to the comparison.
Dequeues(p) ==
  /\ BagCardinality(passes') > BagCardinality(passes)
  /\ CopiesIn(p, passes') > CopiesIn(p, passes)

\* The PATCH request of pass p is made in this step and the server accepts it.
Patches(p) ==
  /\ p.pc = "patch"
  /\ CopiesIn(p, passes') < CopiesIn(p, passes)
  /\ syncTargets' # syncTargets

\* Pass p ends in this step: AddRateLimited or Forget, and Done.
Finishes(p) ==
  /\ p.pc = "finish"
  /\ CopiesIn(p, passes') < CopiesIn(p, passes)

\* C1: in every reachable state at most one worker is between Get and Done
\* for any given key, the keys in progress are the ones the queue holds
\* as being processed, and no more passes are in progress than there are
\* workers.
C1_SingleFlight ==
  /\ BagCardinality(passes) <= NumWorkers
  /\ \A k \in Keys :
       /\ InProgress(k) <= 1
       /\ (InProgress(k) > 0) <=> (k \in processing)

\* Two workers are in progress at once, and the key of one of them was
\* added again while it is in progress: the queue holds it back.
C1_Witness ==
  \E p1, p2 \in BagToSet(passes) :
    /\ p1.key # p2.key
    /\ p1.key \in dirty
    /\ Count(queue, p1.key) = 0

\* C2: however often a key is added before a worker dequeues it, the queue
\* holds one pending entry for it; a key is pending or marked for redelivery
\* only if it was added since Get last returned it.
C2_Dedup ==
  \A k \in Keys :
    /\ Count(queue, k) = IF k \in dirty /\ k \notin processing THEN 1 ELSE 0
    /\ (k \in dirty) <=> (adds[k] >= 1)

\* A key was added MaxBurst times or more, no Get in between, and is pending
\* once.
C2_Witness ==
  \E k \in Keys : adds[k] >= MaxBurst /\ Count(queue, k) = 1 /\ k \notin processing

\* C3: when a key was added (once or several times) while it was being
\* processed, Done puts it into the queue exactly once and releases it; when
\* it was not added, Done puts nothing into the queue.
C3_Redelivery ==
  [][\A p \in BagToSet(passes) :
       Finishes(p) =>
         /\ p.key \notin processing'
         /\ Count(queue', p.key) = IF p.key \in dirty THEN 1 ELSE 0
         /\ (p.key \in dirty') = (p.key \in dirty)
         /\ \A k \in Keys \ {p.key} : Count(queue', k) = Count(queue, k)]_vars

\* The status patch of a pass was the last notification; its key was added
\* twice or more during that pass, the pass is over, and the key is pending
\* once.
C3_Witness ==
  /\ last.op = "SyncTargetPatched"
  /\ adds[SyncTargetKey(last.obj)] >= 2
  /\ Count(queue, SyncTargetKey(last.obj)) = 1
  /\ InProgress(SyncTargetKey(last.obj)) = 0
  /\ SyncTargetKey(last.obj) \notin processing

\* What the chain computes for SyncTarget t of the Store when its status is
\* replaced by synced beforehand.
ChainOn(t, synced) ==
  CompatReconcile(t, ExportReconcile([syncTargets[t] EXCEPT !.synced = synced]).st).st.synced

\* C4: a pass whose computed SyncedResources equal the ones it read goes to
\* its end without a patch and leaves the Store as it is; an accepted patch
\* stores the computed status and changes nothing else the chain reads; and
\* the chain computes the same status again from an object that holds what
\* it computed, so that a second pass with no change in between has nothing
\* to patch.
C4_Idempotent ==
  [][/\ \A p \in BagToSet(passes') :
          /\ (Dequeues(p) /\ p.res.read = p.res.computed) =>
               /\ p.pc = "finish"
               /\ p.res.patch = <<>>
               /\ syncTargets' = syncTargets
          /\ (Dequeues(p) /\ p.res.found) =>
               ChainOn(NameOf(p), p.res.computed) = p.res.computed
     /\ \A p \in BagToSet(passes) :
          Patches(p) =>
            /\ syncTargets' = [syncTargets EXCEPT
                                 ![NameOf(p)].synced = p.res.computed,
                                 ![NameOf(p)].rv = @ + 1]
            /\ UNCHANGED <<apiExports, schemas, imports>>]_vars

\* The second pass after a status patch, nothing having changed since: it
\* read the non-empty status it computes, and it is at its end with no patch.
C4_Witness ==
  /\ last.op = "SyncTargetPatched"
  /\ \E p \in BagToSet(passes) :
       /\ p.pc = "finish"
       /\ p.key = SyncTargetKey(last.obj)
       /\ p.res.found
       /\ ~p.res.err
       /\ p.res.read = p.res.computed
       /\ p.res.read # <<>>
       /\ p.res.patch = <<>>
       /\ syncTargets[last.obj].synced = p.res.read

\* Whether SyncTarget t of the Store declares, in SupportedAPIExports, the
\* stored export e: by e's logical cluster (an omitted path is the
\* SyncTarget's own) or by the logical path e is annotated with.
Declares(t, e) ==
  \E i \in 1..Len(syncTargets[t].exports) :
    /\ syncTargets[t].exports[i].export = e
    /\ \/ syncTargets[t].exports[i].path \in {"", Cluster}
       \/ /\ apiExports[e].path # ""
          /\ syncTargets[t].exports[i].path = apiExports[e].path

\* Whether the schema named n is an entry of export e's LatestResourceSchemas.
Lists(e, n) == \E i \in 1..Len(apiExports[e].schemas) : apiExports[e].schemas[i] = n

SchemaOps == {"SchemaAdd", "SchemaUpdate", "SchemaDelete"}

ExportOps == {"APIExportAdd", "APIExportUpdate", "APIExportDelete"}

\* C5: the keys an APIResourceSchema notification enqueues are exactly the
\* keys of the SyncTargets that declare an export whose LatestResourceSchemas
\* lists the schema.
C5_SchemaFanOut ==
  last.op \in SchemaOps =>
    last.added = {SyncTargetKey(t) : t \in {u \in DOMAIN syncTargets :
                    \E e \in DOMAIN apiExports : Lists(e, last.obj) /\ Declares(u, e)}}

\* T1 and T2 declare E, T3 declares the stored export F, and an update of
\* E's schema S1 has enqueued T1 and T2 and nothing else.
C5_Witness ==
  /\ last.op = "SchemaUpdate"
  /\ last.obj = "S1"
  /\ {"E", "F"} \subseteq DOMAIN apiExports
  /\ Lists("E", "S1")
  /\ Targets \subseteq DOMAIN syncTargets
  /\ Declares("T1", "E") /\ Declares("T2", "E")
  /\ Declares("T3", "F") /\ ~Declares("T3", "E")
  /\ last.added = {SyncTargetKey("T1"), SyncTargetKey("T2")}

\* C6: the keys a notification for an APIExport with a logical-path
\* annotation enqueues are the by-export lookup under (path, name) united
\* with the lookup under (logical cluster, name).
C6_DualAddressing ==
  (last.op \in ExportOps /\ last.path # "") =>
    last.added = SyncTargetsByExport(PathJoin(last.path, last.obj))
                   \cup SyncTargetsByExport(PathJoin(Cluster, last.obj))

\* A notification for an annotated export has enqueued a SyncTarget that
\* references the export by its logical path only and another one that
\* references it by its logical cluster only.
C6_Witness ==
  /\ last.op \in ExportOps
  /\ last.path # ""
  /\ \E t1, t2 \in DOMAIN syncTargets :
       /\ syncTargets[t1].exports = <<Ref(last.path, last.obj)>>
       /\ syncTargets[t2].exports = <<Ref("", last.obj)>>
       /\ {SyncTargetKey(t1), SyncTargetKey(t2)} \subseteq last.added

\* The entries of sequence s as a set.
Range(s) == {s[i] : i \in 1..Len(s)}

\* The resources SyncTarget t of the Store is to have in SyncedResources: the
\* stored schemas that are authoritative in an export t declares and whose
\* resource an import at t supports.
Expected(t) ==
  {SchemaDef[n] : n \in {m \in schemas :
     /\ \E e \in DOMAIN apiExports :
          Declares(t, e) /\ m \in Range(LatestSchemas(apiExports[e].schemas))
     /\ \E i \in DOMAIN imports :
          imports[i].location = t /\ imports[i].gvr = SchemaDef[m].gvr}}

\* C7: the status a pass without error computes for a SyncTarget holds
\* exactly the expected resources, no two entries with one identity hash,
\* and an accepted patch stores it; and the creation of an import for a
\* resource that none of a SyncTarget's resolved schemas has does not change
\* what the compatibility step returns for the SyncTarget.
C7_SyncedResources ==
  [][/\ \A p \in BagToSet(passes') :
          (Dequeues(p) /\ p.res.found /\ ~p.res.err) =>
            /\ Range(p.res.computed) = Expected(NameOf(p))
            /\ \A i, j \in 1..Len(p.res.computed) :
                 p.res.computed[i].hash = p.res.computed[j].hash => i = j
     /\ \A p \in BagToSet(passes) :
          Patches(p) => syncTargets'[NameOf(p)].synced = p.res.computed
     /\ \A i \in DOMAIN imports' \ DOMAIN imports : \A t \in DOMAIN syncTargets :
          (\A r \in Range(ExportReconcile(syncTargets[t]).st.synced) :
             r.gvr # imports'[i].gvr) =>
            CompatReconcileWith(ListAPIResourceImports \cup {imports'[i]}, t,
                                ExportReconcile(syncTargets[t]).st).st.synced
              = CompatReconcile(t, ExportReconcile(syncTargets[t]).st).st.synced]_vars

\* An import for a resource of no resolved schema was added at a SyncTarget,
\* and the pass that followed computed the non-empty status the SyncTarget
\* had: one entry for a schema that two declared references resolve to.
C7_Witness ==
  /\ last.op = "ImportAdd"
  /\ \E p \in BagToSet(passes) :
       /\ p.pc = "finish"
       /\ p.res.found
       /\ ~p.res.err
       /\ p.key = ToClusterAwareKey(Cluster, "", imports[last.obj].location)
       /\ imports[last.obj].gvr \notin {r.gvr : r \in Range(p.res.computed)}
       /\ Len(p.res.computed) = 1
       /\ p.res.computed = p.res.read
       /\ Len(ExportReconcile(syncTargets[NameOf(p)]).st.synced) = 2

\* C8: a pass without error over a SyncTarget at whose location the Store
\* holds no import computes an empty SyncedResources, prepares the patch
\* that empties a non-empty status, and the accepted patch leaves the status
\* empty.
C8_ImportRemoved ==
  [][/\ \A p \in BagToSet(passes') :
          (/\ Dequeues(p) /\ p.res.found /\ ~p.res.err
           /\ \A i \in DOMAIN imports : imports[i].location # NameOf(p)) =>
            /\ p.res.computed = <<>>
            /\ (p.res.read # <<>>) => (p.pc = "patch" /\ p.res.patch[1].synced = <<>>)
     /\ \A p \in BagToSet(passes) :
          (Patches(p) /\ p.res.computed = <<>>) => syncTargets'[NameOf(p)].synced = <<>>]_vars

\* The one import at a SyncTarget's location was deleted, and the next pass
\* has patched the SyncTarget's status, which held an entry, to empty.
C8_Witness ==
  /\ last.op = "SyncTargetPatched"
  /\ changes = 1
  /\ syncTargets[last.obj].synced = <<>>
  /\ syncTargets[last.obj].rv = 3
  /\ \A i \in DOMAIN imports : imports[i].location # last.obj
  /\ apiExports["E"].schemas = <<"S1">>
  /\ Declares(last.obj, "E")
  /\ schemas = SchemaNames

\* C9: a pass that ends with an error counts one more failure for its key
\* and hands the key to the delaying queue (AddRateLimited); a pass that ends
\* without an error resets the key's failure count (Forget), whatever the
\* count was, so that the key's next failure is counted as its first.
C9_BackoffReset ==
  [][\A p \in BagToSet(passes) :
       Finishes(p) =>
         IF p.res.err
         THEN /\ failures'[p.key] = Min(failures[p.key] + 1, MaxFailures)
              /\ waiting' = waiting \cup {p.key}
              /\ p.key \notin processing'
         ELSE /\ failures'[p.key] = 0
              /\ waiting' = waiting]_vars

\* T3's passes had failed MaxFailures times or more for want of export F;
\* F was then created, a retry of T3 succeeded, and T3's failure count is 0.
C9_Witness ==
  /\ last.op = "APIExportAdd"
  /\ last.obj = "F"
  /\ SyncTargetKey("T3") \in last.added
  /\ InProgress(SyncTargetKey("T3")) = 0
  /\ SyncTargetKey("T3") \notin dirty
  /\ failures[SyncTargetKey("T3")] = 0

\* C10: a pass over an existing SyncTarget runs the export step and then the
\* compatibility step whether or not the export step fails; the errors of
\* both are collected, and the pass fails, without a patch, exactly when one
\* of the steps did.
C10_AllStepsRun ==
  [][\A p \in BagToSet(passes') :
       (Dequeues(p) /\ p.res.found) =>
         LET r1 == ExportReconcile(syncTargets[NameOf(p)])
             r2 == CompatReconcile(NameOf(p), r1.st)
         IN  /\ p.res.steps = <<"export", "compat">>
             /\ p.res.errs = (IF r1.err THEN <<"export">> ELSE <<>>)
                               \o (IF r2.err THEN <<"compat">> ELSE <<>>)
             /\ p.res.err = (r1.err \/ r2.err)
             /\ p.res.computed = r2.st.synced
             /\ p.res.err => (p.pc = "finish" /\ p.res.patch = <<>>)]_vars

\* A pass in which the export step failed and the compatibility step ran
\* after it: both steps are recorded, and so are the errors of both.
C10_Witness ==
  \E p \in BagToSet(passes) :
    /\ p.pc = "finish"
    /\ p.res.found
    /\ p.res.steps = <<"export", "compat">>
    /\ p.res.errs = <<"export", "compat">>
    /\ p.res.err

\* C11: a pass in which a reconcile step returned an error and whose working
\* copy holds a SyncedResources other than the one read still hands the
\* working copy to the persister: a status patch is prepared in that pass.
C11_PatchDespiteError ==
  [][\A p \in BagToSet(passes') :
       (Dequeues(p) /\ p.res.found /\ p.res.err /\ p.res.computed # p.res.read) =>
         p.res.patch # <<>>]_vars

\* Exactly one queue.Add(k) is made in this step, and the queue has taken it.
AddsOnly(k) ==
  /\ adds'[k] = adds[k] + 1
  /\ k \in dirty'
  /\ Count(queue', k) = IF k \in processing THEN 0 ELSE 1
  /\ processing' = processing
  /\ \A o \in Keys \ {k} :
       /\ adds'[o] = adds[o]
       /\ Count(queue', o) = Count(queue, o)
       /\ (o \in dirty') = (o \in dirty)

\* C12: an update of a SyncTarget, whoever makes it, in which neither
\* SupportedAPIExports nor SyncedResources differs between the old and the
\* new object leaves the work queue as it is; an update in which one of them
\* differs adds the SyncTarget's own key, and no other.
C12_UpdateFilter ==
  [][\A t \in DOMAIN syncTargets \cap DOMAIN syncTargets' :
       (syncTargets'[t] # syncTargets[t]) =>
         IF \/ syncTargets'[t].exports # syncTargets[t].exports
            \/ syncTargets'[t].synced # syncTargets[t].synced
         THEN AddsOnly(SyncTargetKey(t))
         ELSE UNCHANGED <<queue, dirty, processing, adds>>]_vars

\* A SyncTarget whose key the queue does not hold was updated with its
\* SupportedAPIExports and SyncedResources as they were (the resource
\* version tells of the update), and its key was not added.
C12_Witness ==
  /\ last.op = "SyncTargetUpdate"
  /\ last.added = {}
  /\ changes = 1
  /\ syncTargets[last.obj].rv >= 2
  /\ syncTargets[last.obj].synced # <<>>
  /\ SyncTargetKey(last.obj) \notin dirty \cup processing

\* C13 as claimed: the creation and the deletion of a SyncTarget both add
\* the SyncTarget's own key to the work queue.
C13_AddDeleteEnqueue ==
  [][\A t \in Targets :
       ((t \in DOMAIN syncTargets) # (t \in DOMAIN syncTargets')) =>
         AddsOnly(SyncTargetKey(t))]_vars

\* C13: the creation of a SyncTarget adds the SyncTarget's own key, and no
\* other, to the work queue; the deletion of a SyncTarget leaves the work
\* queue as it is.
C13_AddEnqueues ==
  [][\A t \in Targets :
       /\ (t \notin DOMAIN syncTargets /\ t \in DOMAIN syncTargets') =>
            AddsOnly(SyncTargetKey(t))
       /\ (t \in DOMAIN syncTargets /\ t \notin DOMAIN syncTargets') =>
            UNCHANGED <<queue, dirty, processing, adds, waiting>>]_vars

\* A SyncTarget was deleted, and nothing holds its key: it is not pending,
\* not in progress and not waiting.
C13_Witness ==
  /\ last.op = "SyncTargetDelete"
  /\ last.obj \notin DOMAIN syncTargets
  /\ adds[SyncTargetKey(last.obj)] = 0
  /\ SyncTargetKey(last.obj) \notin dirty \cup processing \cup waiting

\* The key of the SyncTarget an APIResourceImport is about: the import's
\* logical cluster, no namespace, Spec.Location.
LocationKey(im) == ToClusterAwareKey(Cluster, "", im.location)

\* C14: the creation of an APIResourceImport, and an update of one with a
\* Generation other than the old one, add exactly one key, that of the
\* SyncTarget at the import's Location; an update that leaves Generation as
\* it is, and a deletion, leave the work queue as it is.
C14_ImportEvents ==
  [][\A i \in ImportNames :
       /\ (i \notin DOMAIN imports /\ i \in DOMAIN imports') =>
            AddsOnly(LocationKey(imports'[i]))
       /\ (/\ i \in DOMAIN imports /\ i \in DOMAIN imports'
           /\ changes' = changes + 1 /\ last'.op = "ImportUpdate" /\ last'.obj = i) =>
            IF imports'[i].generation # imports[i].generation
            THEN AddsOnly(LocationKey(imports'[i]))
            ELSE UNCHANGED <<queue, dirty, processing, adds, waiting>>
       /\ (i \in DOMAIN imports /\ i \notin DOMAIN imports') =>
            UNCHANGED <<queue, dirty, processing, adds, waiting>>]_vars

\* An import was updated with its Generation as it was, and the key of the
\* SyncTarget at its Location, which the queue did not hold, was not added.
C14_Witness ==
  /\ last.op = "ImportUpdate"
  /\ last.added = {}
  /\ imports[last.obj].generation = 1
  /\ imports[last.obj].location \in DOMAIN syncTargets
  /\ LocationKey(imports[last.obj]) \notin dirty \cup processing

\* C15: the patch a pass prepares is one patch, for the SyncTarget its key
\* names, with the computed SyncedResources as its content and the UID and
\* resource version of the object read; in a step of the controller no
\* APIExport, schema or import changes, no SyncTarget appears or disappears
\* and no SyncTarget's spec or UID changes; a SyncTarget changes only by the
\* patch of a pass for its key, which replaces SyncedResources on the object
\* that still has the UID and resource version read, and that pass is at its
\* end afterwards; no pass comes to stand before a PATCH request again.
C15_OnlyStatusPatch ==
  [][/\ \A p \in BagToSet(passes') :
          /\ (Dequeues(p) /\ p.res.patch # <<>>) =>
               /\ Len(p.res.patch) = 1
               /\ DOMAIN p.res.patch[1] = {"name", "uid", "rv", "synced"}
               /\ p.res.patch[1].name = NameOf(p)
               /\ p.res.patch[1].uid = syncTargets[NameOf(p)].uid
               /\ p.res.patch[1].rv = syncTargets[NameOf(p)].rv
               /\ p.res.patch[1].synced = p.res.computed
          /\ (p.pc = "patch") => (Dequeues(p) \/ CopiesIn(p, passes) = CopiesIn(p, passes'))
     /\ (changes' = changes) =>
          /\ UNCHANGED <<apiExports, schemas, imports, nextUID>>
          /\ DOMAIN syncTargets' = DOMAIN syncTargets
          /\ \A t \in DOMAIN syncTargets :
               /\ syncTargets'[t].exports = syncTargets[t].exports
               /\ syncTargets'[t].uid = syncTargets[t].uid
               /\ (syncTargets'[t] # syncTargets[t]) =>
                    \E p \in BagToSet(passes) :
                      /\ Patches(p)
                      /\ NameOf(p) = t
                      /\ syncTargets[t].uid = p.res.patch[1].uid
                      /\ syncTargets[t].rv = p.res.patch[1].rv
                      /\ syncTargets'[t].synced = p.res.patch[1].synced
                      /\ CopiesIn([p EXCEPT !.pc = "finish"], passes')
                           > CopiesIn([p EXCEPT !.pc = "finish"], passes)]_vars

\* A pass has made its PATCH request and is at its end: the SyncTarget holds
\* the SyncedResources of the patch under the UID the patch carried and the
\* resource version after the one it carried.
C15_Witness ==
  /\ last.op = "SyncTargetPatched"
  /\ \E p \in BagToSet(passes) :
       /\ p.pc = "finish"
       /\ NameOf(p) = last.obj
       /\ p.res.patch # <<>>
       /\ ~p.res.err
       /\ syncTargets[last.obj].synced = p.res.patch[1].synced
       /\ syncTargets[last.obj].uid = p.res.patch[1].uid
       /\ syncTargets[last.obj].rv = p.res.patch[1].rv + 1

\* C16: a pass ends in one step at the tail of processNextWorkItem: its key,
\* held as being processed since Get, is released by Done; when the pass
\* failed the rate limiter counts the failure and the key goes to the
\* delaying queue (AddRateLimited; a queue that is shut down takes nothing),
\* and when it did not the failure count is reset (Forget) and the key does
\* not go to the delaying queue; the worker's loop does not end there.  A
\* worker's loop ends only when Get finds the queue empty and shut down.
C16_DoneAndRetryOrForget ==
  [][/\ \A p \in BagToSet(passes) :
          /\ p.key \in processing
          /\ (CopiesIn(p, passes') < CopiesIn(p, passes)) =>
               IF p.pc = "patch"
               THEN /\ BagCardinality(passes') = BagCardinality(passes)
                    /\ p.key \in processing'
                    /\ UNCHANGED <<failures, waiting, exited>>
               ELSE /\ BagCardinality(passes') = BagCardinality(passes) - 1
                    /\ p.key \notin processing'
                    /\ exited' = exited
                    /\ IF p.res.err
                       THEN /\ failures'[p.key] = Min(failures[p.key] + 1, MaxFailures)
                            /\ phase # "shutdown" => p.key \in waiting'
                       ELSE /\ failures'[p.key] = 0
                            /\ waiting' = waiting
     /\ (exited' # exited) =>
          /\ exited' = exited + 1
          /\ phase = "shutdown"
          /\ queue = <<>>
          /\ passes' = passes
     /\ BagCardinality(passes') + exited' <= NumWorkers]_vars

\* A pass has failed: the failure is counted, the key waits for its retry and
\* is no longer held as being processed; no worker's loop has ended, and a
\* worker is busy with another key.
C16_Witness ==
  \E k \in Keys :
    /\ failures[k] = 1
    /\ k \in waiting
    /\ k \notin processing
    /\ exited = 0
    /\ \E p \in BagToSet(passes) : p.key # k

\* C18: Start returns, and shuts the queue down, only once ctx is cancelled;
\* and once ctx is cancelled the queue is eventually shut down, every pass in
\* progress is finished and its key released, and every worker's loop has
\* ended.
C18_ShutdownDrains ==
  /\ [][phase' = "shutdown" => phase \in {"cancelled", "shutdown"}]_vars
  /\ (phase = "cancelled") ~>
       (/\ phase = "shutdown"
        /\ exited = NumWorkers
        /\ passes = EmptyBag
        /\ processing = {})

\* The queue is shut down and every worker's loop has ended; a pass for T2
\* had failed, and its key is not waiting for a retry.
C18_Witness ==
  /\ phase = "shutdown"
  /\ exited = NumWorkers
  /\ processing = {}
  /\ queue = <<>>
  /\ failures[SyncTargetKey("T2")] = 1
  /\ SyncTargetKey("T2") \notin waiting

\* C17: a pass whose key names no SyncTarget of the Store runs no reconcile
\* step, prepares no patch and is no failure; it ends with the key's failure
\* count reset, the key not handed to the delaying queue, no Add made for it
\* and the Store as it is.
C17_NotFoundIsSuccess ==
  [][/\ \A p \in BagToSet(passes') :
          (Dequeues(p) /\ NameOf(p) \notin DOMAIN syncTargets) =>
            /\ ~p.res.found
            /\ p.res.steps = <<>>
            /\ p.res.patch = <<>>
            /\ ~p.res.err
            /\ p.pc = "finish"
     /\ \A p \in BagToSet(passes) :
          (Finishes(p) /\ ~p.res.found) =>
            /\ failures'[p.key] = 0
            /\ waiting' = waiting
            /\ adds' = adds
            /\ Count(queue', p.key) = IF p.key \in dirty THEN 1 ELSE 0
            /\ UNCHANGED <<syncTargets, apiExports, schemas, imports>>]_vars

\* T3, whose passes had failed for want of export F, was deleted while its
\* key waited for a retry; the retry found no SyncTarget and ended as a
\* success: the failure count is 0 and nothing holds the key.
C17_Witness ==
  /\ last.op = "SyncTargetDelete"
  /\ last.obj = "T3"
  /\ "F" \notin DOMAIN apiExports
  /\ failures[SyncTargetKey("T3")] = 0
  /\ InProgress(SyncTargetKey("T3")) = 0
  /\ SyncTargetKey("T3") \notin dirty \cup processing \cup waiting

\* Whether the chain fails for SyncTarget t of the Store.
ChainErr(t) == Process(SyncTargetKey(t)).err

\* Whether the stored SyncedResources of SyncTarget t of the Store are what
\* the chain computes from the Store.
Reflects(t) == syncTargets[t].synced = Process(SyncTargetKey(t)).computed

\* C19: the key of a SyncTarget for which the chain fails is always pending,
\* in progress or waiting for its retry; a failing pass hands its key to the
\* delaying queue however often the key has failed before; and from a state
\* in which the chain does not fail for a SyncTarget, either it comes to
\* fail again or the stored status comes to be the one the chain computes.
C19_RetryUntilResolved ==
  /\ [](\A t \in DOMAIN syncTargets :
          ChainErr(t) => SyncTargetKey(t) \in dirty \cup processing \cup waiting)
  /\ [][\A p \in BagToSet(passes) :
          (Finishes(p) /\ p.res.err) => p.key \in waiting']_vars
  /\ \A t \in Targets :
       (t \in DOMAIN syncTargets /\ ~ChainErr(t)) ~>
         (t \notin DOMAIN syncTargets \/ ChainErr(t) \/ Reflects(t))

\* What T3's passes had failed for MaxFailures times or more, export F or
\* its schema S2, was created; a retry has patched T3's status, which holds
\* the resource of S2, and T3's failure count is 0.
C19_Witness ==
  /\ last.op = "SyncTargetPatched"
  /\ last.obj = "T3"
  /\ changes = 1
  /\ "F" \in DOMAIN apiExports
  /\ "S2" \in schemas
  /\ syncTargets["T3"].synced = <<SchemaDef["S2"]>>
  /\ failures[SyncTargetKey("T3")] = 0
  /\ InProgress(SyncTargetKey("T3")) = 0

\* The controller has nothing left to do: no key is queued, no pass is in
\* progress, no key waits for its retry.  With no further change of the Store
\* no step of the controller is possible from such a state.
Quiescent ==
  /\ queue = <<>>
  /\ dirty = {}
  /\ processing = {}
  /\ passes = EmptyBag
  /\ waiting = {}

\* C20: once the controller has come to rest, the stored SyncedResources of
\* every SyncTarget of the Store are what the chain computes from the Store.
\* Convergence requires it of the state in which the changes have ended and
\* every notification has been delivered and worked off.
C20_Converges == Quiescent => \A t \in DOMAIN syncTargets : Reflects(t)

\* C21: the pass that starts when Get returns a key is computed from the
\* Store as it is at that moment: the SyncTarget is the one the Store holds
\* under the key (none, when it holds none), the status read is the stored
\* one, the status computed is what the chain yields from the stored
\* SupportedAPIExports, exports, schemas and imports, and a patch carries the
\* stored UID and resource version.  What the object looked like when its
\* key was added plays no part.
C21_FetchFresh ==
  [][\A p \in BagToSet(passes') :
       Dequeues(p) =>
         /\ p.res.found = (NameOf(p) \in DOMAIN syncTargets)
         /\ p.res.found =>
              LET st == syncTargets[NameOf(p)]
                  r1 == ExportReconcile(st)
              IN  /\ p.res.read = st.synced
                  /\ p.res.computed = CompatReconcile(NameOf(p), r1.st).st.synced
                  /\ Len(r1.st.synced) <= Len(Concat([i \in 1..Len(st.exports) |->
                        IF st.exports[i].export \in DOMAIN apiExports
                        THEN apiExports[st.exports[i].export].schemas ELSE <<>>]))
                  /\ p.res.err = r1.err
                  /\ p.res.patch # <<>> =>
                       /\ p.res.patch[1].uid = st.uid
                       /\ p.res.patch[1].rv = st.rv]_vars

\* T2's key was pending, added by the creation of an import at T2, when T2's
\* SupportedAPIExports were changed from [E] to [E, F]; no pass had run.  The
\* pass that Get then started has resolved E and has failed on F, whose
\* schema is not stored: it worked on the changed value.
C21_Witness ==
  /\ last.op = "SyncTargetUpdate"
  /\ last.obj = "T2"
  /\ "T2" \in DOMAIN syncTargets
  /\ syncTargets["T2"].exports = <<Ref("", "E"), Ref("", "F")>>
  /\ syncTargets["T2"].rv = 2
  /\ syncTargets["T2"].synced = <<>>
  /\ failures[SyncTargetKey("T2")] = 0
  /\ \E p \in BagToSet(passes) :
       /\ p.key = SyncTargetKey("T2")
       /\ p.res.errs = <<"export", "compat">>
       /\ p.res.computed = <<SchemaDef["S1"]>>

\* The notifications whose handler met a failure, and those among them in
\* which the handler returned before it had added a key.
FaultOps ==
  {"RouteFault", "APIExportIndexFault", "APIExportKeyFault",
   "SchemaIndexFault", "SchemaExportFault"}

DroppedOps == {"RouteFault", "APIExportIndexFault", "SchemaIndexFault"}

\* A handler reports a failure in this step.
Reports == sink' # sink

\* What a step that reports a failure leaves alone: the keys the queue
\* holds keep their places, none is taken out of the dirty or the processing
\* set, and backoff, passes in progress, the workers and Start are untouched.
QueueKept ==
  /\ Len(queue') >= Len(queue)
  /\ SubSeq(queue', 1, Len(queue)) = queue
  /\ dirty \subseteq dirty'
  /\ processing' = processing
  /\ UNCHANGED <<waiting, failures, passes, phase, exited>>

\* The keys the handlers add when nothing fails, for the notification ev
\* (the SyncTarget index and the by-schema index being those of the Store).
Routed(ev) ==
  CASE ev.op \in ExportOps -> ExportKeys(ev.obj, ev.path)
    [] ev.op \in SchemaOps ->
         UNION {ExportKeys(e, apiExports[e].path) :
                  e \in APIExportsBySchema(ToClusterAwareKey(Cluster, "", ev.obj))}
    [] ev.op = "SyncTargetAdd" -> {SyncTargetKey(ev.obj)}
    [] OTHER -> ev.added

\* C22 as stated: a handler that meets a failure reports it, leaves the keys
\* in the queue as they are, and adds no key after the failure: in the loop
\* of enqueueAPIExport no key is added that comes after a key that failed.
C22_FaultDropsEvent ==
  [][Reports =>
       /\ sink' > sink
       /\ last'.op \in FaultOps
       /\ QueueKept
       /\ last'.op \in DroppedOps => UNCHANGED <<queue, dirty, processing, adds>>
       /\ last'.op = "APIExportKeyFault" =>
            \A l \in ExportKeys(last'.obj, last'.path) \ last'.added :
              \A k \in last'.added : KeyBefore(k, l)]_vars

\* C22, amended: a handler that meets a failure reports it and leaves the
\* keys in the queue as they are.  A failure before the handler's loop
\* (rejected object, index lookup error) adds no key.  A failure for one
\* key in the loop of enqueueAPIExport skips that key and no other: every
\* other indexed key is added, one report per skipped key; a failing
\* enqueueAPIExport call in the loop of enqueueAPIResourceSchema skips that
\* export and no other.  Notifications after a failure are routed as they
\* are without one.
C22_FaultIsLocal ==
  [][/\ Reports =>
          /\ sink' > sink
          /\ last'.op \in FaultOps
          /\ QueueKept
          /\ last'.op \in DroppedOps => UNCHANGED <<queue, dirty, processing, adds>>
          /\ last'.op = "APIExportKeyFault" =>
               /\ last'.added \subseteq ExportKeys(last'.obj, last'.path)
               /\ last'.added \subseteq dirty'
               /\ Cardinality(ExportKeys(last'.obj, last'.path) \ last'.added)
                    = sink' - sink
          /\ last'.op = "SchemaExportFault" =>
               \E f \in APIExportsBySchema(ToClusterAwareKey(Cluster, "", last'.obj)) :
                 last'.added =
                   UNION {ExportKeys(e, apiExports[e].path) :
                            e \in APIExportsBySchema(
                                    ToClusterAwareKey(Cluster, "", last'.obj)) \ {f}}
     /\ (sink > 0 /\ ~Reports /\ changes' # changes) =>
          /\ last'.added = Routed(last')
          /\ last'.added \subseteq dirty']_vars

\* An update of an export that two SyncTargets declare: the loop of
\* enqueueAPIExport failed for the first key, which was reported, and has
\* added the second.
C22_Witness ==
  /\ last.op = "APIExportKeyFault"
  /\ sink = 1
  /\ \E l \in ExportKeys(last.obj, last.path) \ last.added :
       \E k \in last.added : KeyBefore(l, k) /\ k \in dirty

\* Pass p's PATCH request is made in this step and is rejected.
PatchRejected(p) ==
  /\ p.pc = "patch"
  /\ CopiesIn(p, passes') < CopiesIn(p, passes)
  /\ syncTargets' = syncTargets

\* What the queue, the rate limiter and the Store hold for key k is the same
\* before and after the step.
KeyUntouched(k) ==
  /\ Count(queue', k) = Count(queue, k)
  /\ (k \in dirty') = (k \in dirty)
  /\ (k \in processing') = (k \in processing)
  /\ (k \in waiting') = (k \in waiting)
  /\ failures'[k] = failures[k]
  /\ adds'[k] = adds[k]

\* C23: the end of a pass, failed or not, and a rejected PATCH change nothing
\* for any other key: its place in the queue, its dirty and processing
\* marks, its backoff and failure count stay, as do the passes of the other
\* workers and the Store; the order of the queued keys stays; no worker's
\* loop ends, Start does not return, and the worker of the pass that ended
\* is free for the next Get.  A failed pass leaves the other keys exactly as
\* a successful one does.
C23_FailureIsLocal ==
  [][\A p \in BagToSet(passes) :
       /\ Finishes(p) =>
            /\ \A k \in Keys \ {p.key} : KeyUntouched(k)
            /\ SelectSeq(queue', LAMBDA k : k # p.key) = SelectSeq(queue, LAMBDA k : k # p.key)
            /\ passes' = Drop(passes, p)
            /\ UNCHANGED <<storeVars, phase, exited>>
            /\ BagCardinality(passes') + exited' < NumWorkers
       /\ PatchRejected(p) =>
            /\ \A k \in Keys : KeyUntouched(k)
            /\ queue' = queue
            /\ passes' = Put(Drop(passes, p), [p EXCEPT !.pc = "finish", !.res.err = TRUE])
            /\ UNCHANGED <<storeVars, phase, exited>>]_vars

\* The pass of one key has failed for the first time and the key is in
\* backoff, while another key is pending with no failure counted and not in
\* backoff; no worker's loop has ended.
C23_Witness ==
  \E a, b \in Keys :
    /\ a # b
    /\ failures[a] = 1
    /\ a \in waiting
    /\ InProgress(a) = 0
    /\ b \in dirty
    /\ Count(queue, b) = 1
    /\ failures[b] = 0
    /\ b \notin waiting
    /\ exited = 0
    /\ phase = "running"

\* C24: in every reachable state the by-export index holds, under each
\* value, exactly the keys of the SyncTargets of the Store that declare that
\* export in SupportedAPIExports (an omitted path standing for the
\* SyncTarget's logical cluster), and the by-schema index holds, under each
\* schema key, exactly the APIExports of the Store whose
\* LatestResourceSchemas lists the schema: no entry is left of a deleted
\* object or of a reference an update removed, and the lookups of the
\* handlers return what the indices hold.
C24_IndexReflectsStore ==
  /\ \A v \in ExportValues :
       /\ byExport[v] =
            {SyncTargetKey(t) : t \in {u \in DOMAIN syncTargets :
               \E i \in 1..Len(syncTargets[u].exports) :
                 v = PathJoin(RefPath(syncTargets[u].exports[i]),
                              syncTargets[u].exports[i].export)}}
       /\ byExport[v] = SyncTargetsByExport(v)
  /\ \A n \in SchemaNames :
       /\ bySchema[ToClusterAwareKey(Cluster, "", n)] =
            {e \in DOMAIN apiExports : Lists(e, n)}
       /\ bySchema[ToClusterAwareKey(Cluster, "", n)] =
            APIExportsBySchema(ToClusterAwareKey(Cluster, "", n))

\* An update has taken a reference out of a SyncTarget's SupportedAPIExports:
\* T1 declared E by its path and by its cluster and declares E by its path
\* only; the entry under (cluster, E) holds T2 and no longer T1.
C24_Witness ==
  /\ last.op = "SyncTargetUpdate"
  /\ last.obj = "T1"
  /\ syncTargets["T1"].exports = <<Ref(ClusterPath, "E")>>
  /\ syncTargets["T1"].rv = 3
  /\ byExport[PathJoin(Cluster, "E")] = {SyncTargetKey("T2")}
  /\ byExport[PathJoin(ClusterPath, "E")] = {SyncTargetKey("T1")}

\* C25: when a pass panics, Done is called for its key, the panic does not
\* go beyond the worker's loop: that worker is free for the next Get, no
\* worker's loop has ended, the passes of the other workers go on, and the
\* controller keeps running.
C25_PanicIsCaught ==
  [][(last'.op = "WorkerPanic" /\ passes' # passes) =>
       /\ SyncTargetKey(last'.obj) \notin processing'
       /\ \E p \in BagToSet(passes) : p.key = SyncTargetKey(last'.obj) /\ passes' = Drop(passes, p)
       /\ UNCHANGED <<phase, exited>>
       /\ BagCardinality(passes') + exited' < NumWorkers]_vars

\* Whether the declared reference ref resolves: its export is found and so
\* is every authoritative schema of the export.
Resolves(ref) ==
  /\ ExportFound(RefPath(ref), ref.export)
  /\ \A n \in Range(LatestSchemas(apiExports[ref.export].schemas)) : SchemaFound(n)

\* C26: in a pass over a SyncTarget the export step reports an error exactly
\* when one of the declared references does not resolve, and whether or not
\* it does, the step's result holds the resources of every reference that
\* resolves, in the order of the references: those of them that an import
\* backs are in the status the pass computes.
C26_PerReferenceError ==
  [][\A p \in BagToSet(passes') :
       (Dequeues(p) /\ p.res.found) =>
         LET st == syncTargets[NameOf(p)]
             ok == SelectSeq(st.exports, Resolves)
         IN  /\ ("export" \in Range(p.res.errs)) = (Len(ok) < Len(st.exports))
             /\ \A i \in 1..Len(ok) :
                  \A n \in Range(LatestSchemas(apiExports[ok[i].export].schemas)) :
                    /\ SchemaDef[n] \in Range(ExportReconcile(st).st.synced)
                    /\ Imported(ListAPIResourceImports, NameOf(p), SchemaDef[n].gvr) =>
                         SchemaDef[n] \in Range(p.res.computed)
             /\ Len(ok) = Len(st.exports) =>
                  ExportReconcile(st).st.synced =
                    Concat([i \in 1..Len(ok) |->
                      [j \in 1..Len(LatestSchemas(apiExports[ok[i].export].schemas)) |->
                         SchemaDef[LatestSchemas(apiExports[ok[i].export].schemas)[j]]]])]_vars

\* T1 declares F and then E; F is not stored, E and its schema are: the pass
\* has failed in the export step and has computed the resource of E.
C26_Witness ==
  /\ syncTargets["T1"].exports = <<Ref("", "F"), Ref("", "E")>>
  /\ "F" \notin DOMAIN apiExports
  /\ \E p \in BagToSet(passes) :
       /\ p.key = SyncTargetKey("T1")
       /\ p.res.err
       /\ "export" \in Range(p.res.errs)
       /\ p.res.computed = <<SchemaDef["S1"]>>

\* The PATCH request of pass p is made in this step.
Requests(p) ==
  /\ p.pc = "patch"
  /\ CopiesIn(p, passes') < CopiesIn(p, passes)

\* Whether the SyncTarget that pass p read is no longer the server's current
\* object: it was deleted, or replaced by one with another UID, or written
\* since, so that its resource version is another.
Stale(p) ==
  \/ NameOf(p) \notin DOMAIN syncTargets
  \/ syncTargets[NameOf(p)].uid # p.res.patch[1].uid
  \/ syncTargets[NameOf(p)].rv # p.res.patch[1].rv

\* C29: a PATCH request made from a read that is stale is rejected: the
\* Store, the status of the current object included, stays as it is, no key
\* is added, and the pass goes to its end with an error; a pass that ends
\* with an error has its key added rate-limited: the failure is counted and
\* the key waits out its delay.  A PATCH that changes a status was made from
\* a read of the current object.
C29_StalePatchRejected ==
  [][\A p \in BagToSet(passes) :
       /\ (Requests(p) /\ Stale(p)) =>
            /\ UNCHANGED <<storeVars, queue, dirty, processing, adds, waiting, failures>>
            /\ passes' = Put(Drop(passes, p), [p EXCEPT !.pc = "finish", !.res.err = TRUE])
       /\ (Requests(p) /\ syncTargets' # syncTargets) =>
            /\ ~Stale(p)
            /\ syncTargets'[NameOf(p)].synced = p.res.patch[1].synced
            /\ syncTargets'[NameOf(p)].uid = p.res.patch[1].uid
       /\ (Finishes(p) /\ p.res.err) =>
            /\ p.key \in waiting'
            /\ failures'[p.key] = Min(failures[p.key] + 1, MaxFailures)]_vars

\* T2's pass had read T2 and prepared a patch when T2's spec was rewritten;
\* the patch was rejected, T2's status is still empty, and T2's key, whose
\* chain has no error, waits for its retry with one failure counted.
C29_Witness ==
  /\ last.op = "SyncTargetUpdate"
  /\ last.obj = "T2"
  /\ syncTargets["T2"].rv = 2
  /\ syncTargets["T2"].synced = <<>>
  /\ ~ChainErr("T2")
  /\ Process(SyncTargetKey("T2")).computed # <<>>
  /\ SyncTargetKey("T2") \in waiting
  /\ failures[SyncTargetKey("T2")] = 1
  /\ InProgress(SyncTargetKey("T2")) = 0

\* Whether nothing is pending, in progress or waiting for key k.
AtRest(k) ==
  /\ k \notin dirty \cup processing \cup waiting
  /\ InProgress(k) = 0

\* Whether key k names a stored SyncTarget for which the chain fails.
Failing(k) ==
  /\ SplitMetaClusterNamespaceKey(k).name \in DOMAIN syncTargets
  /\ ChainErr(SplitMetaClusterNamespaceKey(k).name)

\* C30: with no change from outside: an accepted status patch of a pass adds
\* the key of the pass once more (the UpdateFunc sees SyncedResources
\* changed) and leaves the stored status the one the chain computes; a pass
\* that starts on a SyncTarget whose stored status is the computed one goes
\* to its end without a patch; a SyncTarget whose stored status is the
\* computed one is not written again; so every SyncTarget is patched at
\* most once.  And the controller comes to rest for good: for every key
\* whose reconciliation does not fail nothing is pending, in progress or
\* waiting from some moment on, and when no reconciliation fails the queue
\* is empty and every worker is blocked in Get.
C30_SelfTriggerSettles ==
  /\ [][/\ \A p \in BagToSet(passes) :
            Patches(p) =>
              /\ p.key \in dirty' \ dirty
              /\ adds'[p.key] = adds[p.key] + 1
              /\ syncTargets'[NameOf(p)].rv = syncTargets[NameOf(p)].rv + 1
              /\ Reflects(NameOf(p))'
        /\ \A p \in BagToSet(passes') :
            (Dequeues(p) /\ p.res.found /\ Reflects(NameOf(p))) =>
              /\ p.res.patch = <<>>
              /\ p.pc = "finish"
        /\ \A t \in DOMAIN syncTargets :
            Reflects(t) => syncTargets'[t] = syncTargets[t]]_vars
  /\ <>[](\A k \in Keys : Failing(k) \/ AtRest(k))
  /\ (\A k \in Keys : ~Failing(k)) => <>[]Quiescent

\* T2's status was empty; one pass has patched it, the patch has added T2's
\* key again, the pass that followed had nothing to patch, and the
\* controller is at rest with T2's status the computed one.
C30_Witness ==
  /\ Quiescent
  /\ "T2" \in DOMAIN syncTargets
  /\ syncTargets["T2"].rv = 2
  /\ syncTargets["T2"].synced # <<>>
  /\ Reflects("T2")
  /\ last.op = "SyncTargetPatched"
  /\ last.obj = "T2"
  /\ last.added = {SyncTargetKey("T2")}

\* C31: at every moment from Start on, the keys held as being processed
\* (between Get and Done) are at most NumWorkers, one for every worker
\* that is busy; busy workers and workers whose loop has ended are together
\* at most NumWorkers; and no worker's loop has ended while the queue is not
\* shut down, so that no loop is started again while ctx is not cancelled.
C31_BoundedParallelism ==
  /\ Cardinality(processing) <= NumWorkers
  /\ Cardinality(processing) = BagCardinality(passes)
  /\ BagCardinality(passes) + exited <= NumWorkers
  /\ (phase \in {"running", "cancelled"}) => (exited = 0)

\* ctx is not cancelled, every worker is busy with a key and a further key
\* is pending: it waits for a worker.
C31_Witness ==
  /\ phase = "running"
  /\ Cardinality(processing) = NumWorkers
  /\ BagCardinality(passes) = NumWorkers
  /\ queue # <<>>
  /\ exited = 0

\* The queue as a handler run leaves it is q.
LeavesQueue(q) ==
  /\ queue' = q.queue
  /\ dirty' = q.dirty
  /\ adds' = q.adds
  /\ processing' = q.processing

\* C32: the deletion of an APIExport delivered in a wrapper leaves the queue
\* as the handler leaves it when called with the export itself, the keys
\* added are those of the SyncTargets that declare the export by its path
\* or its logical cluster, and no error is reported; the deletion of an
\* APIResourceSchema delivered in a wrapper leaves the queue as the handler
\* leaves it when called with the schema itself, for some order of the
\* exports that list the schema, and no error is reported.
C32_TombstoneSameKeys ==
  [][/\ (changes' = changes + 1 /\ last'.op = "APIExportDeleteTombstone") =>
          /\ LeavesQueue(enqueueAPIExportObj(Q, ExportObj(last'.obj)).q)
          /\ last'.added = ExportKeys(last'.obj, apiExports[last'.obj].path)
          /\ sink' = sink
     /\ (changes' = changes + 1 /\ last'.op = "SchemaDeleteTombstone") =>
          /\ \E ord \in Orders(ExportNames) :
               LeavesQueue(enqueueAPIResourceSchemaObj(Q, SchemaObj(last'.obj), ord).q)
          /\ last'.added =
               UNION {ExportKeys(e, apiExports[e].path) :
                        e \in APIExportsBySchema(ToClusterAwareKey(Cluster, "", last'.obj))}
          /\ sink' = sink]_vars

\* The deletion of an APIExport that two SyncTargets declare, one by its
\* path and one by its logical cluster, was delivered in a wrapper, and the
\* keys of both were added.
C32_Witness ==
  /\ last.op = "APIExportDeleteTombstone"
  /\ last.obj \notin DOMAIN apiExports
  /\ last.path = ClusterPath
  /\ {SyncTargetKey("T1"), SyncTargetKey("T2")} \subseteq last.added
  /\ {SyncTargetKey("T1"), SyncTargetKey("T2")} \subseteq dirty \cup processing

\* C33: a pass on a key that cannot be split reports one error, reads no
\* SyncTarget, runs no step, prepares no patch and is no failure; when it
\* ends, the key's failure count is 0, the key is not handed to the delaying
\* queue, no Add is made and the Store is as it was; such a key never waits
\* for a retry and never has a failure counted.  A pass on a key that can
\* be split reports nothing when it starts.
C33_MalformedKeyDropped ==
  /\ [][/\ \A p \in BagToSet(passes') :
            Dequeues(p) =>
              IF SplitMetaClusterNamespaceKey(p.key).err
              THEN /\ sink' = sink + 1
                   /\ ~p.res.found
                   /\ p.res.steps = <<>>
                   /\ p.res.patch = <<>>
                   /\ ~p.res.err
                   /\ p.pc = "finish"
              ELSE sink' = sink
        /\ \A p \in BagToSet(passes) :
            (Finishes(p) /\ SplitMetaClusterNamespaceKey(p.key).err) =>
              /\ failures'[p.key] = 0
              /\ p.key \notin waiting' \cup processing'
              /\ adds' = adds
              /\ (p.key \in dirty') <=> (p.key \in dirty)
              /\ UNCHANGED <<storeVars, sink>>]_vars
  /\ [](\A k \in QueueKeys :
          SplitMetaClusterNamespaceKey(k).err => (k \notin waiting /\ failures[k] = 0))

\* An import was created at a Location that is no name; the key built from
\* it was dequeued, reported and dropped: one error is in the sink, and the
\* key is neither pending nor in progress nor waiting for a retry.
C33_Witness ==
  /\ \E i \in DOMAIN imports : imports[i].location = MalformedLocation
  /\ sink = 1
  /\ MalformedKey \notin dirty \cup processing \cup waiting
  /\ InProgress(MalformedKey) = 0
  /\ failures[MalformedKey] = 0
  /\ adds[MalformedKey] = 0

\* C34 as stated: Start has returned nil only if admin.kubeconfig exists,
\* ctx was not cancelled while the file was missing, and the process did not
\* terminate while the file was missing.
C34_NilOnlyWithFile ==
  (shard.startRet = "nil") =>
    /\ env.file
    /\ ~env.cancelBeforeFile
    /\ ~env.exitBeforeFile

\* C34, amended: Start has returned nil only if admin.kubeconfig exists and
\* the process did not terminate while the file was missing; and if ctx was
\* cancelled while the file was missing, then it was cancelled between the
\* select and the Stat of a round of Start's loop.  A select of Start that
\* finds ctx done or a value in terminatedCh returns an error, and Start
\* returns nil from its Stat only.
C34_NilAfterStat ==
  /\ [](shard.startRet = "nil" =>
          /\ env.file
          /\ ~env.exitBeforeFile
          /\ env.cancelBeforeFile => env.cancelAt = "stat")
  /\ [][/\ (shard.start = "select" /\ shard'.start # "select"
             /\ (env.ctx = "done" \/ shard.terminatedCh # <<>>)) =>
              shard'.startRet \in {"canceled", "terminated"}
        /\ (shard.startRet = "none" /\ shard'.startRet = "nil") =>
              (shard.start = "stat" /\ env.file)]_vars

\* ctx was cancelled while admin.kubeconfig was missing and Start was
\* between its select and its Stat; the process, not yet killed, wrote the
\* file, and Start has returned nil.
C34_Witness ==
  /\ shard.startRet = "nil"
  /\ env.ctx = "done"
  /\ env.cancelBeforeFile
  /\ env.cancelAt = "stat"
  /\ env.file

\* WaitForReady is in its loop.
Polling == shard.wfr \in {"select", "load", "request"}

\* C35: WaitForReady has returned terminatedCh with a nil error only after
\* a GET of /readyz was answered with 200.  A round of its loop in which
\* the kubeconfig is not loaded, or /readyz is not answered with 200, is
\* followed by another round and returns nothing.  A select of WaitForReady
\* that finds ctx done or a value in terminatedCh returns a nil channel and
\* an error, and it returns these only then.  Once ctx is done, a
\* WaitForReady in its loop returns.
C35_ReadyOnlyAfter200 ==
  /\ [](shard.wfrRet = "channel" => env.ok200)
  /\ [][/\ (shard.wfrRet = "none" /\ shard'.wfrRet = "channel") =>
              (shard.wfr = "request" /\ Answers200)
        /\ (shard.wfr = "load" /\ shard'.wfr # "load" /\ shard'.wfr # "request") =>
              (shard'.wfr = "select" /\ shard'.wfrRet = "none")
        /\ (shard.wfr = "load" /\ ~env.file) => shard'.wfr # "request"
        /\ (shard.wfr = "request" /\ shard'.wfr # "request" /\ ~Answers200) =>
              (shard'.wfr = "select" /\ shard'.wfrRet = "none")
        /\ (shard.wfr = "select" /\ shard'.wfr # "select"
             /\ (env.ctx = "done" \/ shard.terminatedCh # <<>>)) =>
              shard'.wfrRet \in {"canceled", "terminated"}
        /\ (shard.wfrRet = "none" /\ shard'.wfrRet = "canceled") =>
              (shard.wfr = "select" /\ env.ctx = "done")
        /\ (shard.wfrRet = "none" /\ shard'.wfrRet = "terminated") =>
              (shard.wfr = "select" /\ shard.terminatedCh # <<>>)]_vars
  /\ (Polling /\ env.ctx = "done") ~> (shard.wfr = "returned")

\* WaitForReady has returned the channel: the server answered 200 while the
\* process ran and ctx was live.
C35_Witness ==
  /\ shard.wfrRet = "channel"
  /\ shard.startRet = "nil"
  /\ env.ok200
  /\ env.file

\* The string holds none of the separators "|", "/" and ":".
NoSeparator(str) == \A i \in 1..Len(str) : str[i] \notin {"|", "/", ":"}

\* C36 as stated: the split of the key built of a cluster and a name gives
\* back that cluster and that name, no other cluster and name have the same
\* key, and no other path and export name have the same index value.
C36_Unambiguous ==
  /\ enc.op = "key" =>
       /\ ~enc.split.err
       /\ enc.split.cluster = enc.x
       /\ enc.split.name = enc.y
       /\ \A cluster \in ClusterNameStrings, name \in LocationStrings :
            ToClusterAwareKeyString(cluster, <<>>, name) = enc.k =>
              (cluster = enc.x /\ name = enc.y)
  /\ enc.op = "index" =>
       \A path \in PathStrings, name \in ReferenceNameStrings :
         PathJoinString(path, name) = enc.k => (path = enc.x /\ name = enc.y)

\* C36, amended: the split of the key built of a cluster and a name gives
\* back that cluster, the empty namespace and that name exactly when the
\* name holds no separator; with a separator in the name the split fails or
\* gives another name.  No other cluster and name, whatever the name holds,
\* have the same key.  No other path and export name have the same index
\* value, as long as neither export name holds a separator.
C36_UnambiguousForNames ==
  /\ enc.op = "key" =>
       /\ NoSeparator(enc.y) =>
            /\ ~enc.split.err
            /\ enc.split.cluster = enc.x
            /\ enc.split.namespace = <<>>
            /\ enc.split.name = enc.y
       /\ ~NoSeparator(enc.y) => (enc.split.err \/ enc.split.name # enc.y)
       /\ \A cluster \in ClusterNameStrings, name \in LocationStrings :
            ToClusterAwareKeyString(cluster, <<>>, name) = enc.k =>
              (cluster = enc.x /\ name = enc.y)
  /\ (enc.op = "index" /\ NoSeparator(enc.y)) =>
       \A path \in PathStrings, name \in ObjectNameStrings :
         PathJoinString(path, name) = enc.k => (path = enc.x /\ name = enc.y)

\* The key of a cluster and a name of several characters each was built
\* and split into the two.
C36_Witness ==
  /\ enc.op = "key"
  /\ Len(enc.x) > 1
  /\ Len(enc.y) > 1
  /\ NoSeparator(enc.y)
  /\ ~enc.split.err
  /\ enc.split.name = enc.y

====
